---------------------------- MODULE Spec2Model ----------------------------
(***************************************************************************)
(* The gateway worker of llm-chat-app-template (src/src/index.ts) as a     *)
(* state machine: the fetch router, and handleChat with its session        *)
(* memory in the key-value store and its chat log in the relational store. *)
(* Every await of a handler is one atomic step; the code between two       *)
(* awaits runs with the step that ends it.                                 *)
(***************************************************************************)
EXTENDS Integers, Sequences, FiniteSets, TLC

\* ------------------------------------------------------------------ bounds
\* Request slots: how many requests can be in flight at once.
MaxInFlight == 2
\* Requests received in one behaviour of Spec, SpecRace, SpecSeq, SpecOld.
MaxRequests == 2
MaxRaceRequests == 3
MaxSeqRequests == 4
MaxOldRequests == 3
\* Longest caller-supplied messages array in SpecSeq.
MaxCallerLen == 3
\* Ids that crypto.randomUUID() can give in one behaviour.
MaxIds == 4
\* Requests received in one behaviour of SpecImage, of SpecNormalize.
MaxImageRequests == 2
MaxNormalizeRequests == 1
\* Requests received in one behaviour of SpecFiles, of SpecFileSeq.
MaxFileRequests == 2
MaxFileSeqRequests == 3
MaxEmbedRequests == 2

\* --------------------------------------------------------------- constants
\* index.ts:32
SYSTEM_PROMPT == "You are a helpful, friendly assistant. Provide concise and accurate responses."
\* index.ts:180, messages.slice(-10)
MemoryWindow == 10

\* What env.AI_MEMORY.get gives for a key that holds nothing.
NoValue == [kind |-> "null"]

\* ------------------------------------------------------------- JSON values
\* A field of the request body as JSON.parse gives it.
Missing   == [kind |-> "undefined"]
JsonNull  == [kind |-> "null"]
JsonStr(s) == [kind |-> "string", value |-> s]
JsonNum(n) == [kind |-> "number", value |-> n]
JsonObj   == [kind |-> "object"]
JsonArr(a) == [kind |-> "array", value |-> a]

\* JavaScript truthiness: undefined, null, "" and 0 are falsy; every object
\* and every array (the empty one too) is truthy.
Truthy(v) ==
    CASE v.kind = "undefined" -> FALSE
      [] v.kind = "null"      -> FALSE
      [] v.kind = "string"    -> v.value # ""
      [] v.kind = "number"    -> v.value # 0
      [] OTHER                -> TRUE

\* a || b
OrElse(a, b) == IF Truthy(a) THEN a ELSE b

IsArray(v) == v.kind = "array"

\* JSON.stringify / JSON.parse of an array of ChatMessage: the text is kept
\* as the tagged value it encodes.
JSONStringify(a) == [kind |-> "string", json |-> "array", value |-> a]
JSONParse(t) == [kind |-> t.json, value |-> t.value]

\* ------------------------------------------------------------ ChatMessage
Roles == {"system", "user", "assistant"}
Msg(role, content) == [role |-> role, content |-> content]
SystemMessage == Msg("system", SYSTEM_PROMPT)

HasSystem(msgs) == \E i \in 1..Len(msgs) : msgs[i].role = "system"

\* messages.slice(-n)
SliceLast(msgs, n) ==
    IF Len(msgs) <= n THEN msgs ELSE SubSeq(msgs, Len(msgs) - n + 1, Len(msgs))


\* ------------------------------------------------------------------ router
\* A URL path as its segments: "/" is <<>>, "/api/chat" is <<"api","chat">>,
\* "/api/" is <<"api","">>.
Methods == {"GET", "POST", "PUT"}

\* path.startsWith(prefix + "/"): the prefix's segments, then at least one more.
StartsWithDir(path, dir) ==
    Len(path) > Len(dir) /\ SubSeq(path, 1, Len(dir)) = dir

\* Mutant: only the first segment is tested, so /api itself counts as API.
IsAssetPath_firstSegment(path) == path = <<>> \/ ~(Len(path) >= 1 /\ path[1] = "api")

\* index.ts:63
IsAssetPath(path) == path = <<>> \/ ~StartsWithDir(path, <<"api">>)

\* index.ts:70-115: the first route whose test holds.
ApiRoute(method, path) ==
    IF path = <<"api", "chat">> /\ method = "POST" THEN "handleChat"
    ELSE IF path = <<"api", "text-to-image">> /\ method = "POST" THEN "handleTextToImage"
    ELSE IF path = <<"api", "embeddings">> /\ method = "POST" THEN "handleEmbeddings"
    ELSE IF path = <<"api", "images">> /\ method = "GET" THEN "handleListImages"
    ELSE IF StartsWithDir(path, <<"api", "images">>) /\ method = "GET" THEN "handleGetImage"
    ELSE IF path = <<"api", "log-build">> /\ method = "POST" THEN "handleBuildLog"
    ELSE IF path = <<"api", "logs">> /\ method = "GET" THEN "handleFetchLogs"
    ELSE IF path = <<"api", "file-tree">> /\ method = "GET" THEN "handleGetFileTree"
    ELSE IF path = <<"api", "project-file">> /\ method = "POST" THEN "handleWriteProjectFile"
    ELSE "NotFound"

\* index.ts:58-115
Route(method, path) ==
    IF IsAssetPath(path) THEN "ASSETS" ELSE ApiRoute(method, path)

Handlers == {"handleChat", "handleTextToImage", "handleEmbeddings", "handleListImages",
             "handleGetImage", "handleBuildLog", "handleFetchLogs", "handleGetFileTree",
             "handleWriteProjectFile"}

\* --------------------------------------------------------------- responses
\* A response: its content type, body and status; of is the number of the
\* request whose inference reply the body streams (0: none). A body is a
\* tuple that starts with the name of its shape.
MkResponse(type, body, status, of) ==
    [type |-> type, body |-> body, status |-> status, of |-> of]
NoResponse == MkResponse("pending", <<>>, 0, 0)
\* index.ts:37-39
jsonResponse(body, status) == MkResponse("application/json", body, status, 0)
\* index.ts:40-42: the body is { error: message }
errorResponse(message, status) == jsonResponse(<<"error", message>>, status)
\* index.ts:64: what env.ASSETS.fetch(request) answers.
AssetResponse == MkResponse("asset", <<>>, 200, 0)
\* index.ts:115
NotFoundResponse == MkResponse("text/plain", <<"text", "Not found">>, 404, 0)
\* index.ts:160-164: the raw streamed response of env.AI.run for request id.
AiResponse(id) == MkResponse("ai-stream", <<>>, 200, id)
\* The text the chunks of that stream add up to, once it has been read to
\* its end: each call's own.
ReplyText(id) == "reply" \o ToString(id)
\* The promise fetch returned was rejected: the caller gets no response.
Rejected == MkResponse("rejected", <<>>, 0, 0)

\* index.ts:68-72,116-119: `return handleChat(request, env)` inside the try
\* hands back the handler's promise without awaiting it, so the promise fetch
\* returns settles as the handler's promise does and the catch never runs.
ReturnFromTry(settled) == settled

\* ---------------------------------------------------- strings, ids, encoding
\* String.prototype.trim, on the strings the requests carry.
Trim(s) ==
    CASE s = " "     -> ""
      [] s = "  "    -> ""
      [] s = " cat " -> "cat"
      [] OTHER       -> s

\* index.ts:200,303: (v || "").trim() throws a TypeError when v is truthy and
\* not a string.
TrimThrows(v) == Truthy(v) /\ v.kind # "string"
\* (v || "").trim() when it does not throw.
TrimOrEmpty(v) == IF Truthy(v) THEN Trim(v.value) ELSE ""

\* Buffer.from(bytes).toString("base64"), on the payloads of the model.
Base64(bytes) ==
    CASE bytes = ""    -> ""
      [] bytes = "img" -> "aW1n"
      [] bytes = "err" -> "ZXJy"
      [] bytes = "txt" -> "dHh0"

\* crypto.randomUUID(): the n-th id it gives; no two are equal.
UUID(n) == "u" \o ToString(n)

\* index.ts:91: path.split("/").pop(), on the segments of a URL path.
Pop(path) == IF Len(path) = 0 THEN "" ELSE path[Len(path)]

\* ---------------------------------------------------------- image results
\* What env.AI.run gives for the image model: null, a string, or an object
\* with the fields data, images and url (Missing when it has none).
ImageObject(data, images, url) ==
    [kind |-> "object", data |-> data, images |-> images, url |-> url]
\* An element of data or images: an object with the fields b64_json and url.
ImageElement(b64_json, url) == [kind |-> "object", b64_json |-> b64_json, url |-> url]

\* arr[0]?.field
FirstField(arr, field) ==
    IF Len(arr.value) = 0 THEN Missing
    ELSE IF arr.value[1].kind # "object" THEN Missing
    ELSE arr.value[1][field]

\* Mutant: the priority of the two inline sources is swapped, and a URL is
\* taken before inline bytes of data[0].
Extract_urlFirst(imageResult) ==
    IF imageResult.kind # "object"
    THEN [b64 |-> JsonNull, urlAvailable |-> JsonNull]
    ELSE IF imageResult.url.kind = "string"
    THEN [b64 |-> JsonNull, urlAvailable |-> imageResult.url]
    ELSE IF IsArray(imageResult.data) /\ Truthy(FirstField(imageResult.data, "b64_json"))
    THEN [b64 |-> FirstField(imageResult.data, "b64_json"), urlAvailable |-> JsonNull]
    ELSE IF IsArray(imageResult.images) /\ Truthy(FirstField(imageResult.images, "b64_json"))
    THEN [b64 |-> FirstField(imageResult.images, "b64_json"), urlAvailable |-> JsonNull]
    ELSE IF IsArray(imageResult.data) /\ Truthy(FirstField(imageResult.data, "url"))
    THEN [b64 |-> JsonNull, urlAvailable |-> FirstField(imageResult.data, "url")]
    ELSE [b64 |-> JsonNull, urlAvailable |-> JsonNull]

\* index.ts:219-232: b64 and urlAvailable after the chain of tests.
Extract(imageResult) ==
    IF imageResult.kind # "object"
    THEN [b64 |-> JsonNull, urlAvailable |-> JsonNull]
    ELSE IF IsArray(imageResult.data) /\ Truthy(FirstField(imageResult.data, "b64_json"))
    THEN [b64 |-> FirstField(imageResult.data, "b64_json"), urlAvailable |-> JsonNull]
    ELSE IF IsArray(imageResult.images) /\ Truthy(FirstField(imageResult.images, "b64_json"))
    THEN [b64 |-> FirstField(imageResult.images, "b64_json"), urlAvailable |-> JsonNull]
    ELSE IF imageResult.url.kind = "string"
    THEN [b64 |-> JsonNull, urlAvailable |-> imageResult.url]
    ELSE IF IsArray(imageResult.data) /\ Truthy(FirstField(imageResult.data, "url"))
    THEN [b64 |-> JsonNull, urlAvailable |-> FirstField(imageResult.data, "url")]
    ELSE [b64 |-> JsonNull, urlAvailable |-> JsonNull]

\* index.ts:235: the URL is fetched when no inline bytes were found.
NeedsFetch(imageResult) ==
    ~Truthy(Extract(imageResult).b64) /\ Truthy(Extract(imageResult).urlAvailable)

\* What fetch(urlAvailable) and fetchRes.arrayBuffer() settle to: a rejection,
\* or a response of some status whose body is read.
FetchResult(resolved, status, body) ==
    [resolved |-> resolved, status |-> status, body |-> body]

\* index.ts:237-244: b64 after the try; the status is never looked at.
Encoded(fetchRes) ==
    IF fetchRes.resolved THEN JsonStr(Base64(fetchRes.body)) ELSE JsonNull

\* index.ts:248-251: a string result is encoded as it is.
StringFallback(imageResult, b64) ==
    IF ~Truthy(b64) /\ imageResult.kind = "string"
    THEN JsonStr(Base64(imageResult.value)) ELSE b64

\* Mutant: has_base64 tells whether b64 is a string, the empty one too.
HasBase64_anyString(b64) == b64.kind = "string"

\* index.ts:290: !!b64
HasBase64(b64) == Truthy(b64)

\* ------------------------------------------------------------------- state
Reqs == 1..MaxInFlight

VARIABLES
    pc,         \* per slot: where the request's handling stands
    req,        \* per slot: the request as received
    rid,        \* per slot: the request's number (0: the slot was never used)
    handler,    \* per slot: what the router selected
    sessionId,  \* per slot: handleChat's sessionId
    messages,   \* per slot: handleChat's messages array
    response,   \* per slot: what the promise returned by fetch settled to
    log,        \* per slot: the calls made on the collaborators and the console
    kv,         \* env.AI_MEMORY: key -> stored text, NoValue when absent
    chats,      \* env.DB, table chats: rows per session_id
    chat_logs,  \* env.DB, table chat_logs: rows
    lastPut,    \* per key: number of the request whose put stored the value
    nreq,       \* requests received so far
    local,      \* per slot: the local variables of the other handlers
    images,     \* env.DB, table images: rows
    embeddings, \* env.DB, table embeddings: rows
    file_edits, \* env.DB, table file_edits: rows
    sent,       \* the 200 responses of the image and file writes, as sent
    nuuid       \* how many ids crypto.randomUUID() has given

vars == <<pc, req, rid, handler, sessionId, messages, response, log, kv, chats,
          chat_logs, lastPut, nreq, local, images, embeddings, file_edits, sent,
          nuuid>>

\* A request: method, path, and the body's fields messages and session_id;
\* now is what Date.now() gives while it is handled. The fields prompt, text,
\* namespace, file_path (the body's path) and content are those the other
\* handlers read; a chat request has none of them.
Request(method, path, msgs, sid, now) ==
    [method |-> method, path |-> path, messages |-> msgs, session_id |-> sid, now |-> now,
     prompt |-> Missing, text |-> Missing, namespace |-> Missing,
     file_path |-> Missing, content |-> Missing]

NoRequest == Request("", <<>>, Missing, Missing, "")

\* index.ts:137: body.session_id || `anon:${Date.now()}`. A session id is
\* kept as a tuple: <<s>> for a supplied s, <<"anon", t>> for a synthesized one.
SessionOf(q) ==
    IF Truthy(q.session_id) THEN <<q.session_id.value>> ELSE <<"anon", q.now>>

\* The values Date.now() takes.
Clock == {"1"}
SessionIds == {<<"A">>, <<"B">>} \cup {<<"anon", t>> : t \in Clock}

\* index.ts:148,181: `session:${sessionId}`
SessionKey(sid) == <<"session", sid>>
\* part_001:42,52: the one key of the earlier worker.
RecentContext == <<"recent_context">>

\* The ids crypto.randomUUID() gives, and the ids a caller asks an image for.
Ids == {UUID(n) : n \in 1..MaxIds}
AskedIds == Ids \cup {"", "img1"}
\* index.ts:265,364: `images:${imageId}`
ImageKey(id) == <<"images", id>>
\* index.ts:324: `embedding:${namespace}:${id}`
EmbeddingKey(namespace, id) == <<"embedding", namespace, id>>
\* index.ts:319: `embedding:raw:${crypto.randomUUID()}`
RawEmbeddingKey(id) == EmbeddingKey("raw", id)
Namespaces == {"default", "ns", "raw"}
\* A value as a template literal prints it.
Text(v) == IF v.kind = "number" THEN ToString(v.value) ELSE v.value
\* index.ts:444: `file:${path}`
FileKey(path) == <<"file", Text(path)>>
FilePathTexts == {"a/b.txt", "c.txt", "7"}
\* index.ts:419,457,462
FileTreeKey == <<"file_tree">>

KvKeys ==
    {SessionKey(sid) : sid \in SessionIds} \cup {RecentContext}
    \cup {ImageKey(id) : id \in AskedIds}
    \cup {EmbeddingKey(ns, id) : ns \in Namespaces, id \in Ids}
    \cup {<<"file", t>> : t \in FilePathTexts}
    \cup {FileTreeKey}

\* The locals of handleTextToImage, handleEmbeddings, handleGetImage and
\* handleWriteProjectFile that outlive an await.
NoLocals ==
    [imageResult |-> Missing, b64 |-> JsonNull, urlAvailable |-> JsonNull,
     fetchRes |-> FetchResult(FALSE, 0, ""), id |-> "", tree |-> <<>>,
     embedRes |-> Missing, vector |-> JsonNull]

Init ==
    /\ pc = [r \in Reqs |-> "idle"]
    /\ req = [r \in Reqs |-> NoRequest]
    /\ rid = [r \in Reqs |-> 0]
    /\ handler = [r \in Reqs |-> "none"]
    /\ sessionId = [r \in Reqs |-> <<>>]
    /\ messages = [r \in Reqs |-> <<>>]
    /\ response = [r \in Reqs |-> NoResponse]
    /\ log = [r \in Reqs |-> <<>>]
    /\ kv = [k \in KvKeys |-> NoValue]
    /\ chats = [sid \in SessionIds |-> 0]
    /\ chat_logs = 0
    /\ lastPut = [k \in KvKeys |-> 0]
    /\ nreq = 0
    /\ local = [r \in Reqs |-> NoLocals]
    /\ images = {}
    /\ embeddings = {}
    /\ file_edits = {}
    /\ sent = {}
    /\ nuuid = 0

Free(r) == pc[r] \in {"idle", "done"}
InFlight == {r \in Reqs : ~Free(r)}

\* ----------------------------------------------------------- fetch, handleChat
\* index.ts:136: body.messages || []
MessagesOf(q) == OrElse(q.messages, JsonArr(<<>>))

\* Mutant: the default prompt is prepended whether or not one is present.
EnsureSystemPrompt_always(msgs) == <<SystemMessage>> \o msgs

\* index.ts:142-144
EnsureSystemPrompt(msgs) ==
    IF HasSystem(msgs) THEN msgs ELSE <<SystemMessage>> \o msgs

\* index.ts:150-154: what the stored text adds to messages.
WithMemory(msgs, memJson) ==
    IF Truthy(memJson) /\ IsArray(JSONParse(memJson))
    THEN msgs \o JSONParse(memJson).value
    ELSE msgs

\* Mutant: messages.slice(0, 10), the first ten.
LastN_first(msgs) ==
    IF Len(msgs) <= MemoryWindow THEN msgs ELSE SubSeq(msgs, 1, MemoryWindow)

\* index.ts:180
LastN(msgs) == SliceLast(msgs, MemoryWindow)

\* index.ts:181: the text put under the session key.
MemoryToStore(msgs) == JSONStringify(LastN(msgs))

\* Mutant: the rejection of env.AI.run is swallowed and the handler goes on.
AfterRun_swallow(ok) == "chat:insert"

\* index.ts:160-164: where handleChat goes once env.AI.run has settled.
AfterRun(ok) == IF ok THEN "chat:insert" ELSE "done"

\* index.ts:134-139: handleChat up to its first await on a collaborator.
StartChat(q) ==
    IF IsArray(MessagesOf(q))
    THEN [pc |-> "chat:get", response |-> NoResponse]
    ELSE [pc |-> "done",
          response |-> ReturnFromTry(errorResponse("Invalid messages array", 400))]

\* Mutant: the prompt is not trimmed before it is tested.
StartTextToImage_noTrim(q) ==
    IF TrimThrows(q.prompt) THEN [pc |-> "done", response |-> ReturnFromTry(Rejected)]
    ELSE IF ~Truthy(q.prompt)
    THEN [pc |-> "done",
          response |-> ReturnFromTry(errorResponse("Image prompt required", 400))]
    ELSE [pc |-> "image:run", response |-> NoResponse]

\* index.ts:198-204: handleTextToImage up to env.AI.run.
StartTextToImage(q) ==
    IF TrimThrows(q.prompt) THEN [pc |-> "done", response |-> ReturnFromTry(Rejected)]
    ELSE IF TrimOrEmpty(q.prompt) = ""
    THEN [pc |-> "done",
          response |-> ReturnFromTry(errorResponse("Image prompt required", 400))]
    ELSE [pc |-> "image:run", response |-> NoResponse]

\* index.ts:301-306: handleEmbeddings up to env.AI.embed.
StartEmbeddings(q) ==
    IF TrimThrows(q.text) THEN [pc |-> "done", response |-> ReturnFromTry(Rejected)]
    ELSE IF TrimOrEmpty(q.text) = ""
    THEN [pc |-> "done",
          response |-> ReturnFromTry(errorResponse("Text is required for embeddings", 400))]
    ELSE [pc |-> "embed:run", response |-> NoResponse]

\* Mutant: the content is tested as the path is (!path || !content), so an
\* empty string is refused and a number is taken.
StartWriteProjectFile_falsy(q) ==
    IF ~Truthy(q.file_path) \/ ~Truthy(q.content)
    THEN [pc |-> "done",
          response |-> ReturnFromTry(errorResponse("Missing path or content", 400))]
    ELSE [pc |-> "file:put", response |-> NoResponse]

\* index.ts:433-440: handleWriteProjectFile up to the put of the content.
StartWriteProjectFile(q) ==
    IF ~Truthy(q.file_path) \/ q.content.kind # "string"
    THEN [pc |-> "done",
          response |-> ReturnFromTry(errorResponse("Missing path or content", 400))]
    ELSE [pc |-> "file:put", response |-> NoResponse]

\* index.ts:58-115: what fetch has done when it first awaits a collaborator
\* or returns; "entered" stands for a handler whose body is not modelled.
Start(q) ==
    CASE Route(q.method, q.path) = "ASSETS" -> [pc |-> "done", response |-> AssetResponse]
      [] Route(q.method, q.path) = "NotFound" -> [pc |-> "done", response |-> NotFoundResponse]
      [] Route(q.method, q.path) = "handleChat" -> StartChat(q)
      [] Route(q.method, q.path) = "handleTextToImage" -> StartTextToImage(q)
      [] Route(q.method, q.path) = "handleEmbeddings" -> StartEmbeddings(q)
      [] Route(q.method, q.path) = "handleGetImage" ->
            [pc |-> "getimage:get", response |-> NoResponse]
      [] Route(q.method, q.path) = "handleGetFileTree" ->
            [pc |-> "tree:get", response |-> NoResponse]
      [] Route(q.method, q.path) = "handleWriteProjectFile" -> StartWriteProjectFile(q)
      [] OTHER -> [pc |-> "entered", response |-> NoResponse]

\* index.ts:58-115 and the head of the handler routed to: the router, and the
\* handler up to its first await on a collaborator.
Fetch(r, q) ==
    /\ Free(r)
    /\ pc' = [pc EXCEPT ![r] = Start(q).pc]
    /\ req' = [req EXCEPT ![r] = q]
    /\ rid' = [rid EXCEPT ![r] = nreq + 1]
    /\ nreq' = nreq + 1
    /\ handler' = [handler EXCEPT ![r] = Route(q.method, q.path)]
    /\ sessionId' = [sessionId EXCEPT ![r] =
                IF Route(q.method, q.path) = "handleChat" THEN SessionOf(q) ELSE <<>>]
    /\ messages' = [messages EXCEPT ![r] =
                IF Route(q.method, q.path) = "handleChat" /\ IsArray(MessagesOf(q))
                THEN EnsureSystemPrompt(MessagesOf(q).value) ELSE <<>>]
    /\ response' = [response EXCEPT ![r] = Start(q).response]
    /\ log' = [log EXCEPT ![r] =
                IF Route(q.method, q.path) = "ASSETS" THEN <<"ASSETS.fetch">> ELSE <<>>]
    /\ local' = [local EXCEPT ![r] =
                [NoLocals EXCEPT !.id =
                    IF Route(q.method, q.path) = "handleGetImage" THEN Pop(q.path) ELSE ""]]
    /\ UNCHANGED <<kv, chats, chat_logs, lastPut>>
    /\ UNCHANGED <<images, embeddings, file_edits, sent, nuuid>>

\* index.ts:146-157: env.AI_MEMORY.get settles.
handleChat_get(r, ok) ==
    /\ pc[r] = "chat:get"
    /\ messages' = [messages EXCEPT ![r] =
                IF ok THEN WithMemory(@, kv[SessionKey(sessionId[r])]) ELSE @]
    /\ log' = [log EXCEPT ![r] =
                IF ok THEN @ \o <<"KV.get">> ELSE @ \o <<"KV.get:throw", "console.warn">>]
    /\ pc' = [pc EXCEPT ![r] = "chat:run"]
    /\ UNCHANGED <<req, rid, handler, sessionId, response, kv, chats, chat_logs, lastPut, nreq>>
    /\ UNCHANGED <<local, images, embeddings, file_edits, sent, nuuid>>

\* index.ts:159-164: env.AI.run settles.
handleChat_run(r, ok) ==
    /\ pc[r] = "chat:run"
    /\ log' = [log EXCEPT ![r] = IF ok THEN @ \o <<"AI.run">> ELSE @ \o <<"AI.run:throw">>]
    /\ pc' = [pc EXCEPT ![r] = AfterRun(ok)]
    /\ response' = [response EXCEPT ![r] =
                IF AfterRun(ok) = "done" THEN ReturnFromTry(Rejected) ELSE @]
    /\ UNCHANGED <<req, rid, handler, sessionId, messages, kv, chats, chat_logs, lastPut, nreq>>
    /\ UNCHANGED <<local, images, embeddings, file_edits, sent, nuuid>>

\* index.ts:166-176: the insert into chats settles.
handleChat_insert(r, ok) ==
    /\ pc[r] = "chat:insert"
    /\ chats' = [chats EXCEPT ![sessionId[r]] = IF ok THEN @ + 1 ELSE @]
    /\ log' = [log EXCEPT ![r] =
                IF ok THEN @ \o <<"D1.insert">> ELSE @ \o <<"D1.insert:throw", "console.error">>]
    /\ pc' = [pc EXCEPT ![r] = "chat:put"]
    /\ UNCHANGED <<req, rid, handler, sessionId, messages, response, kv, chat_logs, lastPut, nreq>>
    /\ UNCHANGED <<local, images, embeddings, file_edits, sent, nuuid>>

\* Mutant: the put merges the window into the text stored by then.
handleChat_put_merge(r, ok) ==
    /\ pc[r] = "chat:put"
    /\ kv' = [kv EXCEPT ![SessionKey(sessionId[r])] =
                IF ok THEN MemoryToStore(WithMemory(messages[r], @)) ELSE @]
    /\ lastPut' = [lastPut EXCEPT ![SessionKey(sessionId[r])] = IF ok THEN rid[r] ELSE @]
    /\ log' = [log EXCEPT ![r] =
                IF ok THEN @ \o <<"KV.put">> ELSE @ \o <<"KV.put:throw", "console.warn">>]
    /\ response' = [response EXCEPT ![r] = ReturnFromTry(AiResponse(rid[r]))]
    /\ pc' = [pc EXCEPT ![r] = "done"]
    /\ UNCHANGED <<req, rid, handler, sessionId, messages, chats, chat_logs, nreq>>
    /\ UNCHANGED <<local, images, embeddings, file_edits, sent, nuuid>>

\* Mutant: the put of the memory has no try of its own, and its rejection is
\* the handler's.
ReplyAfterPut_propagate(ok, id) == IF ok THEN AiResponse(id) ELSE Rejected

\* index.ts:178-187: the put is in its own try/catch, and the raw response is
\* returned whether it was resolved or rejected.
ReplyAfterPut(ok, id) == AiResponse(id)

\* index.ts:178-187: env.AI_MEMORY.put settles and the raw response is returned.
handleChat_put(r, ok) ==
    /\ pc[r] = "chat:put"
    /\ kv' = [kv EXCEPT ![SessionKey(sessionId[r])] =
                IF ok THEN MemoryToStore(messages[r]) ELSE @]
    /\ lastPut' = [lastPut EXCEPT ![SessionKey(sessionId[r])] = IF ok THEN rid[r] ELSE @]
    /\ log' = [log EXCEPT ![r] =
                IF ok THEN @ \o <<"KV.put">> ELSE @ \o <<"KV.put:throw", "console.warn">>]
    /\ response' = [response EXCEPT ![r] = ReturnFromTry(ReplyAfterPut(ok, rid[r]))]
    /\ pc' = [pc EXCEPT ![r] = "done"]
    /\ UNCHANGED <<req, rid, handler, sessionId, messages, chats, chat_logs, nreq>>
    /\ UNCHANGED <<local, images, embeddings, file_edits, sent, nuuid>>

\* ------------------------------------------ handleTextToImage, handleGetImage
\* index.ts:253-260: once b64 has its final value: the warning when there is
\* none, the id, and the step that follows.
Normalized(r, imageResult, urlAvailable, fetchRes, b64, events) ==
    /\ nuuid < MaxIds
    /\ nuuid' = nuuid + 1
    /\ local' = [local EXCEPT ![r].imageResult = imageResult,
                              ![r].urlAvailable = urlAvailable,
                              ![r].fetchRes = fetchRes,
                              ![r].b64 = b64,
                              ![r].id = UUID(nuuid + 1)]
    /\ log' = [log EXCEPT ![r] =
                @ \o events \o (IF Truthy(b64) THEN <<>> ELSE <<"console.warn">>)]
    /\ pc' = [pc EXCEPT ![r] = IF Truthy(b64) THEN "image:put" ELSE "image:insert"]

\* index.ts:208-232,247-260: env.AI.run settles; res is what it resolved to.
handleTextToImage_run(r, ok, res) ==
    /\ pc[r] = "image:run"
    /\ IF ~ok
       THEN /\ log' = [log EXCEPT ![r] = @ \o <<"AI.run:throw", "console.error">>]
            /\ response' = [response EXCEPT ![r] =
                        ReturnFromTry(errorResponse("Image generation failed", 500))]
            /\ pc' = [pc EXCEPT ![r] = "done"]
            /\ UNCHANGED <<local, nuuid>>
       ELSE IF NeedsFetch(res)
       THEN /\ local' = [local EXCEPT ![r].imageResult = res,
                                      ![r].b64 = Extract(res).b64,
                                      ![r].urlAvailable = Extract(res).urlAvailable]
            /\ log' = [log EXCEPT ![r] = @ \o <<"AI.run">>]
            /\ pc' = [pc EXCEPT ![r] = "image:fetch"]
            /\ UNCHANGED <<response, nuuid>>
       ELSE /\ Normalized(r, res, Extract(res).urlAvailable, local[r].fetchRes,
                           StringFallback(res, Extract(res).b64), <<"AI.run">>)
            /\ UNCHANGED response
    /\ UNCHANGED <<req, rid, handler, sessionId, messages, kv, chats, chat_logs, lastPut, nreq>>
    /\ UNCHANGED <<images, embeddings, file_edits, sent>>

\* index.ts:234-260: fetch(urlAvailable) and the read of its body settle.
handleTextToImage_fetch(r, fetchRes) ==
    /\ pc[r] = "image:fetch"
    /\ Normalized(r, local[r].imageResult, local[r].urlAvailable, fetchRes,
                  StringFallback(local[r].imageResult, Encoded(fetchRes)),
                  IF fetchRes.resolved THEN <<"fetch">> ELSE <<"fetch:throw", "console.warn">>)
    /\ UNCHANGED <<req, rid, handler, sessionId, messages, response, kv, chats, chat_logs,
                   lastPut, nreq>>
    /\ UNCHANGED <<images, embeddings, file_edits, sent>>

\* Mutant: the put and the insert share one try, so a rejected put ends the
\* handler before the insert.
AfterImagePut_oneTry(ok) == IF ok THEN "image:insert" ELSE "done"

\* index.ts:262-271: the put has its own try/catch, and the insert follows it
\* whether it was resolved or rejected.
AfterImagePut(ok) == "image:insert"

\* index.ts:262-269: the put of the bytes under images:<id> settles.
handleTextToImage_put(r, ok) ==
    /\ pc[r] = "image:put"
    /\ kv' = [kv EXCEPT ![ImageKey(local[r].id)] = IF ok THEN local[r].b64 ELSE @]
    /\ lastPut' = [lastPut EXCEPT ![ImageKey(local[r].id)] = IF ok THEN rid[r] ELSE @]
    /\ log' = [log EXCEPT ![r] =
                IF ok THEN @ \o <<"KV.put">> ELSE @ \o <<"KV.put:throw", "console.error">>]
    /\ pc' = [pc EXCEPT ![r] = AfterImagePut(ok)]
    /\ UNCHANGED <<req, rid, handler, sessionId, messages, response, chats, chat_logs, nreq>>
    /\ UNCHANGED <<local, images, embeddings, file_edits, sent, nuuid>>

\* index.ts:284-292: the body of the 200 response.
ImageMetadata(id, b64, imageResult) == <<"image", id, HasBase64(b64), imageResult>>

\* index.ts:271-292: the insert into images settles and the metadata is
\* returned.
handleTextToImage_insert(r, ok) ==
    /\ pc[r] = "image:insert"
    /\ images' = IF ok
                 THEN images \cup {[id |-> local[r].id,
                                    has_b64 |-> IF Truthy(local[r].b64) THEN 1 ELSE 0]}
                 ELSE images
    /\ log' = [log EXCEPT ![r] =
                IF ok THEN @ \o <<"D1.insert">> ELSE @ \o <<"D1.insert:throw", "console.error">>]
    /\ response' = [response EXCEPT ![r] =
                ReturnFromTry(jsonResponse(
                    ImageMetadata(local[r].id, local[r].b64, local[r].imageResult), 200))]
    /\ sent' = sent \cup {[kind |-> "image", id |-> local[r].id,
                            has_base64 |-> HasBase64(local[r].b64),
                            value |-> local[r].b64]}
    /\ pc' = [pc EXCEPT ![r] = "done"]
    /\ UNCHANGED <<req, rid, handler, sessionId, messages, kv, chats, chat_logs, lastPut, nreq>>
    /\ UNCHANGED <<local, embeddings, file_edits, nuuid>>

\* index.ts:362-371: the get of images:<id> settles.
handleGetImage_get(r, ok) ==
    /\ pc[r] = "getimage:get"
    /\ log' = [log EXCEPT ![r] =
                IF ok THEN @ \o <<"KV.get">> ELSE @ \o <<"KV.get:throw", "console.error">>]
    /\ response' = [response EXCEPT ![r] =
                ReturnFromTry(
                    IF ~ok THEN errorResponse("Failed to fetch image", 500)
                    ELSE IF ~Truthy(kv[ImageKey(local[r].id)])
                    THEN errorResponse("Image not found", 404)
                    ELSE jsonResponse(<<"bytes", local[r].id, kv[ImageKey(local[r].id)]>>, 200))]
    /\ pc' = [pc EXCEPT ![r] = "done"]
    /\ UNCHANGED <<req, rid, handler, sessionId, messages, kv, chats, chat_logs, lastPut, nreq>>
    /\ UNCHANGED <<local, images, embeddings, file_edits, sent, nuuid>>

\* ------------------------------- handleWriteProjectFile, handleGetFileTree
\* The file tree is { root: [node, ...] }; the model keeps root. JSON.stringify
\* and JSON.parse of a tree: the text is kept as the tagged value it encodes.
StringifyTree(root) == [kind |-> "string", json |-> "tree", value |-> root]
ParseTree(text) == text.value
\* index.ts:420,458: treeRaw ? JSON.parse(treeRaw) : { root: [] }
TreeOf(treeRaw) == IF treeRaw.kind = "string" THEN ParseTree(treeRaw) ELSE <<>>

\* path.split("/").pop()
Basename(p) ==
    CASE p = "a/b.txt" -> "b.txt"
      [] OTHER         -> p
\* index.ts:461
FileNode(path) == [path |-> path, name |-> Basename(path.value), type |-> "file"]
\* f.path === path
SamePath(a, b) == a.kind = b.kind /\ a.value = b.value
\* index.ts:460: tree.root.some((f) => f.path === path)
HasNode(root, path) == \E i \in 1..Len(root) : SamePath(root[i].path, path)

\* Mutant: the node is pushed whether or not the tree has one for the path.
Upsert_push(root, path) == root \o <<FileNode(path)>>

\* index.ts:460-461: the tree with a node for path.
Upsert(root, path) == IF HasNode(root, path) THEN root ELSE root \o <<FileNode(path)>>

\* index.ts:468
WrittenResponse(path) == jsonResponse(<<"success", Text(path)>>, 200)
\* The write of path was answered 200.
Written(path) ==
    [kind |-> "file", id |-> Text(path), has_base64 |-> FALSE, value |-> JsonNull]

\* Mutant: the update of the tree has no try of its own, and a failure in it
\* lands in the outer catch.
TreeUpdateFailed_outerCatch(path) == errorResponse("Failed to write project file", 500)

\* index.ts:464-468: a failure in the update of the tree is caught, warned of,
\* and the write is answered as written.
TreeUpdateFailed(path) == WrittenResponse(path)

\* index.ts:442-449,469-472: the put of the content under file:<path> settles.
handleWriteProjectFile_put(r, ok) ==
    /\ pc[r] = "file:put"
    /\ nuuid < MaxIds
    /\ kv' = [kv EXCEPT ![FileKey(req[r].file_path)] = IF ok THEN req[r].content ELSE @]
    /\ lastPut' = [lastPut EXCEPT ![FileKey(req[r].file_path)] = IF ok THEN rid[r] ELSE @]
    /\ log' = [log EXCEPT ![r] =
                IF ok THEN @ \o <<"KV.put">> ELSE @ \o <<"KV.put:throw", "console.error">>]
    /\ local' = [local EXCEPT ![r].id = IF ok THEN UUID(nuuid + 1) ELSE @]
    /\ nuuid' = IF ok THEN nuuid + 1 ELSE nuuid
    /\ pc' = [pc EXCEPT ![r] = IF ok THEN "file:insert" ELSE "done"]
    /\ response' = [response EXCEPT ![r] =
                IF ok THEN @
                ELSE ReturnFromTry(errorResponse("Failed to write project file", 500))]
    /\ UNCHANGED <<req, rid, handler, sessionId, messages, chats, chat_logs, nreq>>
    /\ UNCHANGED <<images, embeddings, file_edits, sent>>

\* index.ts:450-453,469-472: the insert into file_edits settles.
handleWriteProjectFile_insert(r, ok) ==
    /\ pc[r] = "file:insert"
    /\ file_edits' = IF ok
                     THEN file_edits \cup {[id |-> local[r].id,
                                            file_path |-> Text(req[r].file_path)]}
                     ELSE file_edits
    /\ log' = [log EXCEPT ![r] =
                IF ok THEN @ \o <<"D1.insert">> ELSE @ \o <<"D1.insert:throw", "console.error">>]
    /\ pc' = [pc EXCEPT ![r] = IF ok THEN "file:tree" ELSE "done"]
    /\ response' = [response EXCEPT ![r] =
                IF ok THEN @
                ELSE ReturnFromTry(errorResponse("Failed to write project file", 500))]
    /\ UNCHANGED <<req, rid, handler, sessionId, messages, kv, chats, chat_logs, lastPut, nreq>>
    /\ UNCHANGED <<local, images, embeddings, sent, nuuid>>

\* index.ts:455-468: the get of file_tree settles. When the tree has a node
\* for the path the write is over; when it has none the node is pushed and
\* the tree is put. A path that is not a string has no node, and path.split
\* throws into the inner catch.
handleWriteProjectFile_tree(r, ok) ==
    /\ pc[r] = "file:tree"
    /\ IF ok /\ req[r].file_path.kind = "string"
          /\ Upsert(TreeOf(kv[FileTreeKey]), req[r].file_path) # TreeOf(kv[FileTreeKey])
       THEN /\ local' = [local EXCEPT ![r].tree = Upsert(TreeOf(kv[FileTreeKey]), req[r].file_path)]
            /\ log' = [log EXCEPT ![r] = @ \o <<"KV.get">>]
            /\ pc' = [pc EXCEPT ![r] = "file:treeput"]
            /\ UNCHANGED <<response, sent>>
       ELSE /\ log' = [log EXCEPT ![r] =
                        IF ~ok THEN @ \o <<"KV.get:throw", "console.warn">>
                        ELSE IF req[r].file_path.kind = "string"
                        THEN @ \o <<"KV.get">>
                        ELSE @ \o <<"KV.get", "split:throw", "console.warn">>]
            /\ response' = [response EXCEPT ![r] =
                        ReturnFromTry(
                            IF ok /\ req[r].file_path.kind = "string"
                            THEN WrittenResponse(req[r].file_path)
                            ELSE TreeUpdateFailed(req[r].file_path))]
            /\ sent' = sent \cup {Written(req[r].file_path)}
            /\ pc' = [pc EXCEPT ![r] = "done"]
            /\ UNCHANGED local
    /\ UNCHANGED <<req, rid, handler, sessionId, messages, kv, chats, chat_logs, lastPut, nreq>>
    /\ UNCHANGED <<images, embeddings, file_edits, nuuid>>

\* index.ts:462-468: the put of file_tree settles.
handleWriteProjectFile_treePut(r, ok) ==
    /\ pc[r] = "file:treeput"
    /\ kv' = [kv EXCEPT ![FileTreeKey] = IF ok THEN StringifyTree(local[r].tree) ELSE @]
    /\ lastPut' = [lastPut EXCEPT ![FileTreeKey] = IF ok THEN rid[r] ELSE @]
    /\ log' = [log EXCEPT ![r] =
                IF ok THEN @ \o <<"KV.put">> ELSE @ \o <<"KV.put:throw", "console.warn">>]
    /\ response' = [response EXCEPT ![r] =
                ReturnFromTry(IF ok THEN WrittenResponse(req[r].file_path)
                              ELSE TreeUpdateFailed(req[r].file_path))]
    /\ sent' = sent \cup {Written(req[r].file_path)}
    /\ pc' = [pc EXCEPT ![r] = "done"]
    /\ UNCHANGED <<req, rid, handler, sessionId, messages, chats, chat_logs, nreq>>
    /\ UNCHANGED <<local, images, embeddings, file_edits, nuuid>>

\* index.ts:417-425: the get of file_tree settles.
handleGetFileTree_get(r, ok) ==
    /\ pc[r] = "tree:get"
    /\ log' = [log EXCEPT ![r] =
                IF ok THEN @ \o <<"KV.get">> ELSE @ \o <<"KV.get:throw", "console.error">>]
    /\ response' = [response EXCEPT ![r] =
                ReturnFromTry(
                    IF ok THEN jsonResponse(<<"tree", TreeOf(kv[FileTreeKey])>>, 200)
                    ELSE errorResponse("Failed to get file tree", 500))]
    /\ pc' = [pc EXCEPT ![r] = "done"]
    /\ UNCHANGED <<req, rid, handler, sessionId, messages, kv, chats, chat_logs, lastPut, nreq>>
    /\ UNCHANGED <<local, images, embeddings, file_edits, sent, nuuid>>

\* ------------------------------------------------------------ handleEmbeddings
\* index.ts:304: body.namespace || "default"
NamespaceOf(q) == IF Truthy(q.namespace) THEN Text(q.namespace) ELSE "default"
\* What env.AI.embed resolves with: an object with its data and its embedding.
EmbedObject(data, embedding) == [kind |-> "object", data |-> data, embedding |-> embedding]
EmbedElement(embedding) == [kind |-> "object", embedding |-> embedding]
\* embedRes.data[0]?.embedding
FirstEmbedding(data) ==
    IF data.kind = "array" /\ Len(data.value) > 0 /\ data.value[1].kind = "object"
    THEN data.value[1].embedding
    ELSE Missing
\* index.ts:315: (embedRes?.data && embedRes.data[0]?.embedding) ||
\* embedRes?.embedding || null
VectorOf(embedRes) ==
    IF embedRes.kind # "object" THEN JsonNull
    ELSE IF Truthy(embedRes.data) /\ Truthy(FirstEmbedding(embedRes.data))
    THEN FirstEmbedding(embedRes.data)
    ELSE IF Truthy(embedRes.embedding) THEN embedRes.embedding
    ELSE JsonNull
\* index.ts:324: JSON.stringify({ text, vector })
StoredEmbedding(text, vector) ==
    [kind |-> "string", json |-> "embedding", value |-> <<text, vector>>]
\* index.ts:319: JSON.stringify(embedRes)
StoredRaw(embedRes) == [kind |-> "string", json |-> "raw", value |-> embedRes]
\* index.ts:336
EmbeddedResponse(id, namespace) == jsonResponse(<<"embedding", id, namespace>>, 200)
\* index.ts:320
UnexpectedShapeResponse ==
    jsonResponse(<<"ok:false", "Embedding generated but shape unexpected; stored raw response.">>,
                 200)
\* index.ts:337-340
EmbedFailed == errorResponse("Failed to generate embedding", 500)

\* index.ts:308-323: env.AI.embed settles; the vector is looked for and the id
\* of the key to write is drawn.
handleEmbeddings_embed(r, ok, embedRes) ==
    /\ pc[r] = "embed:run"
    /\ nuuid < MaxIds
    /\ log' = [log EXCEPT ![r] =
                IF ok THEN @ \o <<"AI.embed">> ELSE @ \o <<"AI.embed:throw", "console.error">>]
    /\ local' = [local EXCEPT ![r] =
                IF ok THEN [@ EXCEPT !.embedRes = embedRes, !.vector = VectorOf(embedRes),
                                     !.id = UUID(nuuid + 1)]
                ELSE @]
    /\ nuuid' = IF ok THEN nuuid + 1 ELSE nuuid
    /\ pc' = [pc EXCEPT ![r] =
                IF ~ok THEN "done"
                ELSE IF Truthy(VectorOf(embedRes)) THEN "embed:put" ELSE "embed:putraw"]
    /\ response' = [response EXCEPT ![r] = IF ok THEN @ ELSE ReturnFromTry(EmbedFailed)]
    /\ UNCHANGED <<req, rid, handler, sessionId, messages, kv, chats, chat_logs, lastPut, nreq>>
    /\ UNCHANGED <<images, embeddings, file_edits, sent>>

\* index.ts:317-321: no vector was found; the raw result is put under
\* embedding:raw:<uuid> and the answer is a 200 that says so.
handleEmbeddings_putRaw(r, ok) ==
    /\ pc[r] = "embed:putraw"
    /\ kv' = [kv EXCEPT ![RawEmbeddingKey(local[r].id)] =
                IF ok THEN StoredRaw(local[r].embedRes) ELSE @]
    /\ lastPut' = [lastPut EXCEPT ![RawEmbeddingKey(local[r].id)] = IF ok THEN rid[r] ELSE @]
    /\ log' = [log EXCEPT ![r] =
                IF ok THEN @ \o <<"KV.put">> ELSE @ \o <<"KV.put:throw", "console.error">>]
    /\ response' = [response EXCEPT ![r] =
                IF ok THEN ReturnFromTry(UnexpectedShapeResponse)
                ELSE ReturnFromTry(EmbedFailed)]
    /\ pc' = [pc EXCEPT ![r] = "done"]
    /\ UNCHANGED <<req, rid, handler, sessionId, messages, chats, chat_logs, nreq>>
    /\ UNCHANGED <<local, images, embeddings, file_edits, sent, nuuid>>

\* index.ts:323-324: the embedding is put under embedding:<namespace>:<id>.
handleEmbeddings_put(r, ok) ==
    /\ pc[r] = "embed:put"
    /\ kv' = [kv EXCEPT ![EmbeddingKey(NamespaceOf(req[r]), local[r].id)] =
                IF ok THEN StoredEmbedding(TrimOrEmpty(req[r].text), local[r].vector) ELSE @]
    /\ lastPut' = [lastPut EXCEPT ![EmbeddingKey(NamespaceOf(req[r]), local[r].id)] =
                IF ok THEN rid[r] ELSE @]
    /\ log' = [log EXCEPT ![r] =
                IF ok THEN @ \o <<"KV.put">> ELSE @ \o <<"KV.put:throw", "console.error">>]
    /\ response' = [response EXCEPT ![r] = IF ok THEN @ ELSE ReturnFromTry(EmbedFailed)]
    /\ pc' = [pc EXCEPT ![r] = IF ok THEN "embed:insert" ELSE "done"]
    /\ UNCHANGED <<req, rid, handler, sessionId, messages, chats, chat_logs, nreq>>
    /\ UNCHANGED <<local, images, embeddings, file_edits, sent, nuuid>>

\* index.ts:326-336: the insert of the index row settles, a failure of it is
\* warned of and dropped, and the id and the namespace are answered.
handleEmbeddings_insert(r, ok) ==
    /\ pc[r] = "embed:insert"
    /\ embeddings' = IF ok
                     THEN embeddings \cup {[id |-> local[r].id,
                                            namespace |-> NamespaceOf(req[r]),
                                            text_snippet |-> TrimOrEmpty(req[r].text)]}
                     ELSE embeddings
    /\ log' = [log EXCEPT ![r] =
                IF ok THEN @ \o <<"D1.insert">> ELSE @ \o <<"D1.insert:throw", "console.warn">>]
    /\ response' = [response EXCEPT ![r] =
                ReturnFromTry(EmbeddedResponse(local[r].id, NamespaceOf(req[r])))]
    /\ pc' = [pc EXCEPT ![r] = "done"]
    /\ UNCHANGED <<req, rid, handler, sessionId, messages, kv, chats, chat_logs, lastPut, nreq>>
    /\ UNCHANGED <<local, images, file_edits, sent, nuuid>>

\* ------------------------------------------- the earlier worker (part_001)
\* part_001:12-29
RouteOld(method, path) ==
    IF IsAssetPath(path) THEN "ASSETS"
    ELSE IF path = <<"api", "chat">> /\ method = "POST" THEN "handleChatRequest"
    ELSE IF path = <<"api", "tasks">> THEN "tasks"
    ELSE "NotFound"

\* part_001:35: const { messages = [] } = await request.json()
DestructureMessages(q) == IF q.messages.kind = "undefined" THEN JsonArr(<<>>) ELSE q.messages

\* part_001:60-65
FailedToProcess == jsonResponse(<<"error", "Failed to process request">>, 500)

\* part_001:43-45
WithRecentContext(msgs, memoryJson) ==
    IF Truthy(memoryJson) THEN msgs \o JSONParse(memoryJson).value ELSE msgs

\* part_001:8-39: the router, and handleChatRequest up to its first await on a
\* collaborator; messages.some throws on anything but an array.
FetchOld(r, q) ==
    /\ Free(r)
    /\ pc' = [pc EXCEPT ![r] =
                CASE RouteOld(q.method, q.path) = "handleChatRequest"
                        -> (IF IsArray(DestructureMessages(q)) THEN "old:get" ELSE "done")
                  [] RouteOld(q.method, q.path) = "tasks" -> "old:tasks"
                  [] OTHER -> "done"]
    /\ req' = [req EXCEPT ![r] = q]
    /\ rid' = [rid EXCEPT ![r] = nreq + 1]
    /\ nreq' = nreq + 1
    /\ handler' = [handler EXCEPT ![r] = RouteOld(q.method, q.path)]
    /\ sessionId' = [sessionId EXCEPT ![r] = <<>>]
    /\ messages' = [messages EXCEPT ![r] =
                IF RouteOld(q.method, q.path) = "handleChatRequest"
                   /\ IsArray(DestructureMessages(q))
                THEN EnsureSystemPrompt(DestructureMessages(q).value) ELSE <<>>]
    /\ response' = [response EXCEPT ![r] =
                CASE RouteOld(q.method, q.path) = "ASSETS" -> AssetResponse
                  [] RouteOld(q.method, q.path) = "NotFound" -> NotFoundResponse
                  [] RouteOld(q.method, q.path) = "handleChatRequest"
                     /\ ~IsArray(DestructureMessages(q)) -> FailedToProcess
                  [] OTHER -> NoResponse]
    /\ log' = [log EXCEPT ![r] =
                CASE RouteOld(q.method, q.path) = "ASSETS" -> <<"ASSETS.fetch">>
                  [] RouteOld(q.method, q.path) = "handleChatRequest"
                     /\ ~IsArray(DestructureMessages(q)) -> <<"console.error">>
                  [] OTHER -> <<>>]
    /\ UNCHANGED <<kv, chats, chat_logs, lastPut>>
    /\ UNCHANGED <<local, images, embeddings, file_edits, sent, nuuid>>

\* part_001:41-45,60-65: env.AI_MEMORY.get("recent_context", "json") settles.
handleChatRequest_get(r, ok) ==
    /\ pc[r] = "old:get"
    /\ messages' = [messages EXCEPT ![r] =
                IF ok THEN WithRecentContext(@, kv[RecentContext]) ELSE @]
    /\ log' = [log EXCEPT ![r] =
                IF ok THEN @ \o <<"KV.get">> ELSE @ \o <<"KV.get:throw", "console.error">>]
    /\ pc' = [pc EXCEPT ![r] = IF ok THEN "old:run" ELSE "done"]
    /\ response' = [response EXCEPT ![r] = IF ok THEN @ ELSE FailedToProcess]
    /\ UNCHANGED <<req, rid, handler, sessionId, kv, chats, chat_logs, lastPut, nreq>>
    /\ UNCHANGED <<local, images, embeddings, file_edits, sent, nuuid>>

\* part_001:47-48,60-65: env.AI.run settles.
handleChatRequest_run(r, ok) ==
    /\ pc[r] = "old:run"
    /\ log' = [log EXCEPT ![r] =
                IF ok THEN @ \o <<"AI.run">> ELSE @ \o <<"AI.run:throw", "console.error">>]
    /\ pc' = [pc EXCEPT ![r] = IF ok THEN "old:put" ELSE "done"]
    /\ response' = [response EXCEPT ![r] = IF ok THEN @ ELSE FailedToProcess]
    /\ UNCHANGED <<req, rid, handler, sessionId, messages, kv, chats, chat_logs,
                   lastPut, nreq>>
    /\ UNCHANGED <<local, images, embeddings, file_edits, sent, nuuid>>

\* part_001:50-52,60-65: env.AI_MEMORY.put settles.
handleChatRequest_put(r, ok) ==
    /\ pc[r] = "old:put"
    /\ kv' = [kv EXCEPT ![RecentContext] = IF ok THEN MemoryToStore(messages[r]) ELSE @]
    /\ lastPut' = [lastPut EXCEPT ![RecentContext] = IF ok THEN rid[r] ELSE @]
    /\ log' = [log EXCEPT ![r] =
                IF ok THEN @ \o <<"KV.put">> ELSE @ \o <<"KV.put:throw", "console.error">>]
    /\ pc' = [pc EXCEPT ![r] = IF ok THEN "old:insert" ELSE "done"]
    /\ response' = [response EXCEPT ![r] = IF ok THEN @ ELSE FailedToProcess]
    /\ UNCHANGED <<req, rid, handler, sessionId, messages, chats, chat_logs, nreq>>
    /\ UNCHANGED <<local, images, embeddings, file_edits, sent, nuuid>>

\* part_001:54-65: the insert into chat_logs settles; the response is returned
\* only when it succeeded.
handleChatRequest_insert(r, ok) ==
    /\ pc[r] = "old:insert"
    /\ chat_logs' = IF ok THEN chat_logs + 1 ELSE chat_logs
    /\ log' = [log EXCEPT ![r] =
                IF ok THEN @ \o <<"D1.insert">> ELSE @ \o <<"D1.insert:throw", "console.error">>]
    /\ pc' = [pc EXCEPT ![r] = "done"]
    /\ response' = [response EXCEPT ![r] = IF ok THEN AiResponse(rid[r]) ELSE FailedToProcess]
    /\ UNCHANGED <<req, rid, handler, sessionId, messages, kv, chats, lastPut, nreq>>
    /\ UNCHANGED <<local, images, embeddings, file_edits, sent, nuuid>>

\* part_001:21-27: the tasks query settles; it is awaited outside any try.
fetchOld_tasks(r, ok) ==
    /\ pc[r] = "old:tasks"
    /\ log' = [log EXCEPT ![r] = IF ok THEN @ \o <<"D1.all">> ELSE @ \o <<"D1.all:throw">>]
    /\ pc' = [pc EXCEPT ![r] = "done"]
    /\ response' = [response EXCEPT ![r] =
                IF ok THEN jsonResponse(<<"tasks">>, 200) ELSE Rejected]
    /\ UNCHANGED <<req, rid, handler, sessionId, messages, kv, chats, chat_logs,
                   lastPut, nreq>>
    /\ UNCHANGED <<local, images, embeddings, file_edits, sent, nuuid>>

\* ------------------------------------------------------------------ inputs
User(c) == Msg("user", c)
CustomSystem == Msg("system", "custom")

Paths == { <<>>, <<"index.html">>, <<"api">>, <<"apix", "chat">>, <<"api", "">>,
           <<"api", "chat">>, <<"api", "chat", "">>, <<"api", "text-to-image">>,
           <<"api", "embeddings">>, <<"api", "images">>, <<"api", "images", "">>,
           <<"api", "images", "img1">>, <<"api", "log-build">>, <<"api", "logs">>,
           <<"api", "file-tree">>, <<"api", "project-file">>, <<"api", "unknown">> }

ChatArrays == { <<>>, <<User("hi")>>, <<CustomSystem>>, <<User("yo"), CustomSystem>> }

MessagesFields ==
    {Missing, JsonNull, JsonStr(""), JsonStr("hi"), JsonNum(0), JsonNum(7), JsonObj}
    \cup {JsonArr(a) : a \in ChatArrays}

SessionFields == {Missing, JsonStr("A"), JsonStr("B")}

RouteInputs ==
    {Request(m, p, JsonArr(<<User("hi")>>), JsonStr("A"), "1") : m \in Methods, p \in Paths}

ChatInputs ==
    {Request("POST", <<"api", "chat">>, m, s, t) :
        m \in MessagesFields, s \in SessionFields, t \in Clock}

\* Two callers of one session, racing.
RaceInputs ==
    {Request("POST", <<"api", "chat">>, JsonArr(<<User(c)>>), JsonStr("A"), "1") :
        c \in {"hi", "yo"}}

\* A longer conversation: a call sends nothing, or MaxCallerLen messages: the
\* users' of one content, with a system message at any one place or none.
InsertAt(a, i, m) == SubSeq(a, 1, i - 1) \o <<m>> \o SubSeq(a, i, Len(a))
Users(n, c) == [i \in 1..n |-> User(c)]
SeqArrays ==
    {<<>>}
    \cup {Users(MaxCallerLen, c) : c \in {"a", "b"}}
    \cup {InsertAt(Users(MaxCallerLen - 1, c), i, CustomSystem) :
            c \in {"a", "b"}, i \in 1..MaxCallerLen}
SeqInputs ==
    {Request("POST", <<"api", "chat">>, JsonArr(a), JsonStr("A"), "1") : a \in SeqArrays}

\* The results of the image model: null, a string, or an object whose data,
\* images and url are absent or present in each of their shapes.
DataFields ==
    {Missing, JsonObj, JsonArr(<<>>), JsonArr(<<JsonNull>>)}
    \cup {JsonArr(<<ImageElement(b, u)>>) :
            b \in {Missing, JsonStr(""), JsonStr("AAAA")},
            u \in {Missing, JsonStr("https://x/d0")}}
ImagesFields ==
    {Missing, JsonArr(<<>>), JsonArr(<<ImageElement(Missing, JsonStr("https://x/i0"))>>),
     JsonArr(<<ImageElement(JsonStr("BBBB"), Missing)>>)}
UrlFields == {Missing, JsonStr(""), JsonStr("https://x/y.png"), JsonNum(5)}
ImageResults ==
    {JsonNull, JsonStr(""), JsonStr("txt")}
    \cup {ImageObject(d, i, u) : d \in DataFields, i \in ImagesFields, u \in UrlFields}

\* What the fetch of the image's URL settles to.
FetchResults ==
    {FetchResult(FALSE, 0, ""), FetchResult(TRUE, 200, "img"), FetchResult(TRUE, 200, ""),
     FetchResult(TRUE, 404, "err")}

PromptFields ==
    {Missing, JsonNull, JsonStr(""), JsonStr("  "), JsonStr(" cat "), JsonNum(0), JsonNum(7)}
ImageInputs ==
    {[Request("POST", <<"api", "text-to-image">>, Missing, Missing, "1") EXCEPT !.prompt = p] :
        p \in PromptFields}
    \cup {Request("GET", <<"api", "images", id>>, Missing, Missing, "1") :
            id \in {"", "img1", UUID(1), UUID(2)}}

PathFields == {Missing, JsonStr(""), JsonStr("a/b.txt"), JsonStr("c.txt"), JsonNum(7)}
ContentFields == {Missing, JsonNull, JsonStr(""), JsonStr("hello"), JsonNum(3)}
FileInputs ==
    {[Request("POST", <<"api", "project-file">>, Missing, Missing, "1")
        EXCEPT !.file_path = p, !.content = c] : p \in PathFields, c \in ContentFields}
    \cup {Request("GET", <<"api", "file-tree">>, Missing, Missing, "1")}
\* The valid writes of one content, and the read of the tree.
RaceFileInputs ==
    {q \in FileInputs : q.method = "GET" \/ (Truthy(q.file_path) /\ q.content = JsonStr("hello"))}

\* A new request takes the lowest free slot.
\* POST /api/embeddings with every text and namespace, and what env.AI.embed
\* may resolve with.
TextFields == {Missing, JsonNull, JsonStr(""), JsonStr("  "), JsonStr(" cat "), JsonNum(7)}
NamespaceFields == {Missing, JsonStr(""), JsonStr("ns"), JsonStr("raw")}
EmbedInputs ==
    {[Request("POST", <<"api", "embeddings">>, Missing, Missing, "1")
        EXCEPT !.text = t, !.namespace = n] : t \in TextFields, n \in NamespaceFields}
EmbedDataFields ==
    {Missing, JsonArr(<<>>), JsonArr(<<EmbedElement(Missing)>>),
     JsonArr(<<EmbedElement(JsonArr(<<1>>))>>)}
EmbeddingFields == {Missing, JsonNull, JsonArr(<<>>), JsonArr(<<2>>)}
EmbedResults ==
    {Missing, JsonNull}
    \cup {EmbedObject(d, e) : d \in EmbedDataFields, e \in EmbeddingFields}

Slot(r) == Free(r) /\ \A o \in Reqs : Free(o) => r <= o

\* ----------------------------------------------------------- specifications
ChatGet == \E r \in Reqs, ok \in BOOLEAN : handleChat_get(r, ok)
ChatRun == \E r \in Reqs, ok \in BOOLEAN : handleChat_run(r, ok)
ChatInsert == \E r \in Reqs, ok \in BOOLEAN : handleChat_insert(r, ok)
ChatPut == \E r \in Reqs, ok \in BOOLEAN : handleChat_put(r, ok)
ChatSteps == ChatGet \/ ChatRun \/ ChatInsert \/ ChatPut
\* The same steps when the collaborator does not fail.
ChatGetOk == \E r \in Reqs : handleChat_get(r, TRUE)
ChatRunOk == \E r \in Reqs : handleChat_run(r, TRUE)
ChatInsertOk == \E r \in Reqs : handleChat_insert(r, TRUE)
ChatPutOk == \E r \in Reqs : handleChat_put(r, TRUE)

\* Spec: requests of every method, path and body, handled one after another.
Receive ==
    \E r \in Reqs, q \in RouteInputs \cup ChatInputs :
        nreq < MaxRequests /\ InFlight = {} /\ Slot(r) /\ Fetch(r, q)
Next == Receive \/ ChatSteps
Spec == Init /\ [][Next]_vars

\* SpecLogPending: the same requests when every call on the session memory
\* and on the inference service settles in the end, while the insert of the
\* chat's record may stay pending for ever.
SpecLogPending ==
    Init /\ [][Next]_vars /\ WF_vars(ChatGet) /\ WF_vars(ChatRun) /\ WF_vars(ChatPut)

\* SpecRace: chat requests of one session, up to MaxInFlight at a time, their
\* steps interleaved in every order; the reads and the puts of the session
\* memory may fail.
ReceiveRace ==
    \E r \in Reqs, q \in RaceInputs :
        nreq < MaxRaceRequests /\ Slot(r) /\ Fetch(r, q)
NextRace == ReceiveRace \/ ChatGet \/ ChatRunOk \/ ChatInsertOk \/ ChatPut
SpecRace == Init /\ [][NextRace]_vars

\* SpecSeq: one session's chat calls, one after another and each successful
\* (no collaborator fails), until the session's window is full.
ReceiveSeq ==
    \E r \in Reqs, q \in SeqInputs :
        nreq < MaxSeqRequests /\ InFlight = {} /\ Slot(r) /\ Fetch(r, q)
NextSeq == ReceiveSeq \/ ChatGetOk \/ ChatRunOk \/ ChatInsertOk \/ ChatPutOk
SpecSeq == Init /\ [][NextSeq]_vars

\* SpecOld: the earlier worker (part_001), one request after another.
OldInputs ==
    {Request(m, p, JsonArr(<<User("hi")>>), Missing, "1") :
        m \in {"GET", "POST"},
        p \in {<<>>, <<"api", "chat">>, <<"api", "tasks">>, <<"api", "unknown">>}}
    \cup {Request("POST", <<"api", "chat">>, m, Missing, "1") : m \in MessagesFields}
    \cup {Request("POST", <<"api", "chat">>, JsonArr(<<User("hi")>>), JsonStr("A"), "1"),
          Request("POST", <<"api", "chat">>, JsonArr(<<User("yo")>>), JsonStr("B"), "1")}
ReceiveOld ==
    \E r \in Reqs, q \in OldInputs :
        nreq < MaxOldRequests /\ InFlight = {} /\ Slot(r) /\ FetchOld(r, q)
OldGet == \E r \in Reqs, ok \in BOOLEAN : handleChatRequest_get(r, ok)
OldRun == \E r \in Reqs, ok \in BOOLEAN : handleChatRequest_run(r, ok)
OldPut == \E r \in Reqs, ok \in BOOLEAN : handleChatRequest_put(r, ok)
OldInsert == \E r \in Reqs, ok \in BOOLEAN : handleChatRequest_insert(r, ok)
OldTasks == \E r \in Reqs, ok \in BOOLEAN : fetchOld_tasks(r, ok)
NextOld == ReceiveOld \/ OldGet \/ OldRun \/ OldPut \/ OldInsert \/ OldTasks
SpecOld == Init /\ [][NextOld]_vars

\* SpecImage: image generations and reads of stored images, one request
\* after another; every collaborator may fail.
ReceiveImage ==
    \E r \in Reqs, q \in ImageInputs :
        nreq < MaxImageRequests /\ InFlight = {} /\ Slot(r) /\ Fetch(r, q)
ImageRun ==
    \E r \in Reqs :
        \/ \E res \in ImageResults : handleTextToImage_run(r, TRUE, res)
        \/ handleTextToImage_run(r, FALSE, JsonNull)
ImageFetch == \E r \in Reqs, fetchRes \in FetchResults : handleTextToImage_fetch(r, fetchRes)
ImagePut == \E r \in Reqs, ok \in BOOLEAN : handleTextToImage_put(r, ok)
ImageInsert == \E r \in Reqs, ok \in BOOLEAN : handleTextToImage_insert(r, ok)
GetImage == \E r \in Reqs, ok \in BOOLEAN : handleGetImage_get(r, ok)
ImageSteps == ImageRun \/ ImageFetch \/ ImagePut \/ ImageInsert \/ GetImage
NextImage == ReceiveImage \/ ImageSteps
SpecImage == Init /\ [][NextImage]_vars
\* SpecNormalize: image generations alone, where every await settles in the
\* end and the handler is resumed when it has.
ReceiveNormalize ==
    \E r \in Reqs, q \in {i \in ImageInputs : i.method = "POST"} :
        nreq < MaxNormalizeRequests /\ InFlight = {} /\ Slot(r) /\ Fetch(r, q)
NormalizeSteps == ImageRun \/ ImageFetch \/ ImagePut \/ ImageInsert
NextNormalize == ReceiveNormalize \/ NormalizeSteps
SpecNormalize == Init /\ [][NextNormalize]_vars /\ WF_vars(NormalizeSteps)

\* SpecFiles: project-file writes and reads of the file tree, up to MaxInFlight
\* at a time, their steps interleaved in every order; the reads and the puts
\* of the tree may fail.
ReceiveFiles ==
    \E r \in Reqs, q \in RaceFileInputs :
        nreq < MaxFileRequests /\ Slot(r) /\ Fetch(r, q)
FilePut == \E r \in Reqs, ok \in BOOLEAN : handleWriteProjectFile_put(r, ok)
FileInsert == \E r \in Reqs, ok \in BOOLEAN : handleWriteProjectFile_insert(r, ok)
FileTree == \E r \in Reqs, ok \in BOOLEAN : handleWriteProjectFile_tree(r, ok)
FileTreePut == \E r \in Reqs, ok \in BOOLEAN : handleWriteProjectFile_treePut(r, ok)
GetFileTree == \E r \in Reqs, ok \in BOOLEAN : handleGetFileTree_get(r, ok)
\* The put of the content and the insert of the edit log when they succeed.
FilePutOk == \E r \in Reqs : handleWriteProjectFile_put(r, TRUE)
FileInsertOk == \E r \in Reqs : handleWriteProjectFile_insert(r, TRUE)
NextFiles ==
    ReceiveFiles \/ FilePutOk \/ FileInsertOk \/ FileTree \/ FileTreePut \/ GetFileTree
SpecFiles == Init /\ [][NextFiles]_vars

\* SpecEmbed: embedding requests one after another; every call may fail.
ReceiveEmbed ==
    \E r \in Reqs, q \in EmbedInputs :
        nreq < MaxEmbedRequests /\ InFlight = {} /\ Slot(r) /\ Fetch(r, q)
EmbedRun ==
    \E r \in Reqs :
        \/ \E embedRes \in EmbedResults : handleEmbeddings_embed(r, TRUE, embedRes)
        \/ handleEmbeddings_embed(r, FALSE, Missing)
EmbedPutRaw == \E r \in Reqs, ok \in BOOLEAN : handleEmbeddings_putRaw(r, ok)
EmbedPut == \E r \in Reqs, ok \in BOOLEAN : handleEmbeddings_put(r, ok)
EmbedInsert == \E r \in Reqs, ok \in BOOLEAN : handleEmbeddings_insert(r, ok)
NextEmbed == ReceiveEmbed \/ EmbedRun \/ EmbedPutRaw \/ EmbedPut \/ EmbedInsert
SpecEmbed == Init /\ [][NextEmbed]_vars

\* SpecFileSeq: the same requests with every body, valid or not, one after
\* another.
ReceiveFileSeq ==
    \E r \in Reqs, q \in FileInputs :
        nreq < MaxFileSeqRequests /\ InFlight = {} /\ Slot(r) /\ Fetch(r, q)
NextFileSeq ==
    ReceiveFileSeq \/ FilePut \/ FileInsert \/ FileTree \/ FileTreePut \/ GetFileTree
SpecFileSeq == Init /\ [][NextFileSeq]_vars

\* ------------------------------------------------------------------ claims
Has(l, e) == \E i \in 1..Len(l) : l[i] = e
\* The place of the first e in l (0: none).
Index(l, e) == IF Has(l, e) THEN CHOOSE i \in 1..Len(l) : l[i] = e /\ \A j \in 1..(i - 1) : l[j] # e
               ELSE 0
Min(a, b) == IF a <= b THEN a ELSE b
IsChat(r) == handler[r] = "handleChat"
\* The caller's messages array of a chat request that passed validation.
Caller(r) == MessagesOf(req[r]).value
Validated(r) == IsChat(r) /\ IsArray(MessagesOf(req[r]))
\* env.AI.run has been called with messages[r]: the call is pending or settled.
HandedToAI(r) ==
    /\ IsChat(r)
    /\ pc[r] = "chat:run" \/ Has(log[r], "AI.run") \/ Has(log[r], "AI.run:throw")
SystemPlaces(msgs) == {i \in 1..Len(msgs) : msgs[i].role = "system"}
\* The array a stored text holds (empty when nothing is stored).
Stored(k) == IF Truthy(kv[k]) THEN JSONParse(kv[k]).value ELSE <<>>
Elements(a) == {a[i] : i \in 1..Len(a)}
\* w is the last n entries of m, or all of m when it has fewer.
IsTail(w, m, n) ==
    /\ Len(w) = Min(Len(m), n)
    /\ \A i \in 1..Len(w) : w[i] = m[Len(m) - Len(w) + i]

\* C1: every message sequence handed to the inference service holds exactly
\* one system message, and holds it first. (Fails: the stored window carries
\* the earlier call's system message, and it is appended again.)
C1_OneSystemMessageFirst ==
    \A r \in Reqs : HandedToAI(r) => SystemPlaces(messages[r]) = {1}

C3_WindowIsLastTen ==
    \A r \in Reqs :
        (IsChat(r) /\ pc[r] = "done" /\ Has(log[r], "KV.put"))
        => /\ kv[SessionKey(sessionId[r])].json = "array"
           /\ Len(Stored(SessionKey(sessionId[r]))) <= 10
           /\ IsTail(Stored(SessionKey(sessionId[r])), messages[r], 10)

C3_Witness ==
    \E r \in Reqs :
        /\ IsChat(r) /\ pc[r] = "done" /\ Has(log[r], "KV.put")
        /\ Len(messages[r]) > 10
        /\ Len(Stored(SessionKey(sessionId[r]))) = 10
        /\ Stored(SessionKey(sessionId[r]))[1] # messages[r][1]

\* C4: after a successful chat call whose request carries a new user message,
\* that newest message of the caller is in the stored window. (Fails: memory
\* is appended after the caller's messages, so the last 10 are the old ones.)
C4_NewestMessageStored ==
    \A r \in Reqs :
        (/\ IsChat(r) /\ pc[r] = "done" /\ Has(log[r], "KV.put")
         /\ Len(Caller(r)) > 0 /\ Caller(r)[Len(Caller(r))].role = "user")
        => Caller(r)[Len(Caller(r))] \in Elements(Stored(SessionKey(sessionId[r])))

\* C5: a chat request whose body has no messages field, or one that is not an
\* array, is answered 400 before any collaborator is called. (Fails: a
\* missing, null, "" or 0 field is replaced by [] and the call proceeds.)
C5_NotAnArrayIs400 ==
    \A r \in Reqs :
        (IsChat(r) /\ req[r].messages.kind # "array")
        => /\ response[r] = errorResponse("Invalid messages array", 400)
           /\ log[r] = <<>>

IsChatHandler(r) == handler[r] \in {"handleChat", "handleChatRequest"}
\* C6: when the insert of the chat log is rejected, the chat request is still
\* answered with the inference service's reply, and the put of the session
\* memory is still attempted. (Holds of handleChat in index.ts; fails of
\* handleChatRequest in part_001, whose one try turns the rejected insert
\* into a 500.)
C6_InsertFailureKeepsReply ==
    \A r \in Reqs :
        (IsChatHandler(r) /\ pc[r] = "done" /\ Has(log[r], "D1.insert:throw"))
        => /\ response[r] = AiResponse(rid[r])
           /\ Has(log[r], "KV.put") \/ Has(log[r], "KV.put:throw")

\* C7: when env.AI.run rejects, fetch answers 500 with a JSON error body and
\* nothing is inserted or put. (Fails: fetch returns handleChat's promise
\* without awaiting it, so the rejection passes the catch and fetch rejects.)
C7_RunFailureIs500 ==
    \A r \in Reqs :
        (IsChat(r) /\ Has(log[r], "AI.run:throw"))
        => /\ response[r] = errorResponse("Internal server error", 500)
           /\ ~Has(log[r], "D1.insert") /\ ~Has(log[r], "KV.put")

\* C8: whatever the interleaving of the chat calls of one session, the text
\* stored under the session's key is the window of the call whose put came
\* last, computed from that call's own messages: never a merge of windows.
C8_LastPutWins ==
    \A r \in Reqs :
        (IsChat(r) /\ rid[r] # 0 /\ lastPut[SessionKey(sessionId[r])] = rid[r])
        => /\ kv[SessionKey(sessionId[r])].json = "array"
           /\ IsTail(Stored(SessionKey(sessionId[r])), messages[r], 10)

\* Two calls raced: each read before the other wrote, both put, and the
\* window holds the later one's message and not the earlier one's.
C8_Witness ==
    \E r, o \in Reqs :
        /\ r # o /\ IsChat(r) /\ IsChat(o) /\ sessionId[r] = sessionId[o]
        /\ pc[r] = "done" /\ pc[o] = "done"
        /\ Has(log[r], "KV.put") /\ Has(log[o], "KV.put")
        /\ lastPut[SessionKey(sessionId[r])] = rid[r]
        /\ Caller(r) # Caller(o)
        /\ Caller(o)[1] \notin Elements(Stored(SessionKey(sessionId[r])))
        /\ Caller(r)[1] \in Elements(Stored(SessionKey(sessionId[r])))

ReadSettled(r) == Has(log[r], "KV.get") \/ Has(log[r], "KV.get:throw")
PutIssued(r) == pc[r] = "chat:put" \/ Has(log[r], "KV.put") \/ Has(log[r], "KV.put:throw")
\* C9: in one chat call the read of the session memory has settled before
\* env.AI.run is called, env.AI.run has returned before the put of the session
\* memory is issued, and no put is issued when env.AI.run did not return.
C9_ReadThenRunThenPut ==
    \A r \in Reqs :
        IsChat(r) =>
            /\ HandedToAI(r) => ReadSettled(r)
            /\ Has(log[r], "AI.run") =>
                    Index(log[r], "KV.get") + Index(log[r], "KV.get:throw") < Index(log[r], "AI.run")
            /\ PutIssued(r) => Has(log[r], "AI.run")
            /\ Has(log[r], "KV.put") => Index(log[r], "AI.run") < Index(log[r], "KV.put")
            /\ Has(log[r], "KV.put:throw") => Index(log[r], "AI.run") < Index(log[r], "KV.put:throw")
            /\ Has(log[r], "AI.run:throw") => ~PutIssued(r)

C9_Witness ==
    \E r \in Reqs :
        /\ IsChat(r) /\ pc[r] = "done"
        /\ log[r] = <<"KV.get", "AI.run", "D1.insert", "KV.put">>
        /\ Len(messages[r]) > Len(Caller(r)) + 1

UnderApi(path) == Len(path) >= 2 /\ path[1] = "api"
Outcomes(r) ==
    {o \in {"assets", "handler", "not-found"} :
        \/ o = "assets" /\ Has(log[r], "ASSETS.fetch")
        \/ o = "handler" /\ (pc[r] # "done" \/ handler[r] \in Handlers)
        \/ o = "not-found" /\ response[r] = NotFoundResponse}
\* C10: the router selects exactly one outcome for a request (the assets, one
\* handler, or the 404), and a request whose path does not start with /api/
\* goes to the assets whatever its method: no handler runs, and neither the
\* inference service nor a store is called.
C10_OneOutcomeAssetsOutsideApi ==
    \A r \in Reqs :
        rid[r] # 0 =>
            /\ Cardinality(Outcomes(r)) = 1
            /\ ~UnderApi(req[r].path) =>
                    /\ Outcomes(r) = {"assets"}
                    /\ handler[r] = "ASSETS"
                    /\ pc[r] = "done"
                    /\ response[r] = AssetResponse
                    /\ log[r] = <<"ASSETS.fetch">>
                    /\ messages[r] = <<>>

C10_Witness ==
    \E r \in Reqs :
        /\ rid[r] # 0 /\ req[r].method = "POST" /\ req[r].path = <<"api">>
        /\ response[r] = AssetResponse
        /\ nreq = 2 /\ \E k \in KvKeys : Truthy(kv[k])

RoutePaths ==
    {<<"api", "chat">>, <<"api", "text-to-image">>, <<"api", "embeddings">>,
     <<"api", "images">>, <<"api", "log-build">>, <<"api", "logs">>,
     <<"api", "file-tree">>, <<"api", "project-file">>}
KnownRoutePath(path) == path \in RoutePaths \/ StartsWithDir(path, <<"api", "images">>)
\* C11: a request under /api/ that matches no route is answered 405 when its
\* path is the path of a route and only the method differs, and 404 when the
\* path is no route's path. (Fails: the router has the one fall-through, the
\* 404, and never answers 405.)
C11_WrongMethodIs405 ==
    \A r \in Reqs :
        (rid[r] # 0 /\ StartsWithDir(req[r].path, <<"api">>) /\ handler[r] = "NotFound")
        => response[r].status = (IF KnownRoutePath(req[r].path) THEN 405 ELSE 404)

IsImage(r) == handler[r] = "handleTextToImage"
\* env.AI.run has resolved for an image request: its result is being, or has
\* been, normalized.
Invoked(r) == IsImage(r) /\ Has(log[r], "AI.run")
Fetches(r) == {i \in 1..Len(log[r]) : log[r][i] \in {"fetch", "fetch:throw"}}
\* The four sources of an object-shaped result, as the spec lists them.
InlineOf(arr) ==
    IF IsArray(arr) /\ Len(arr.value) > 0 /\ arr.value[1].kind = "object"
       /\ arr.value[1].b64_json.kind = "string" /\ arr.value[1].b64_json.value # ""
    THEN arr.value[1].b64_json ELSE JsonNull
UrlOfFirst(arr) ==
    IF IsArray(arr) /\ Len(arr.value) > 0 /\ arr.value[1].kind = "object"
       /\ arr.value[1].url.kind = "string" /\ arr.value[1].url.value # ""
    THEN arr.value[1].url ELSE JsonNull
HasInlineData(res) == InlineOf(res.data).kind = "string"
HasInlineImages(res) == InlineOf(res.images).kind = "string"
HasTopUrl(res) == res.url.kind = "string"
HasDataUrl(res) == UrlOfFirst(res.data).kind = "string"
\* The bytes b64 holds when they were not fetched (null when they were).
InlineBytes(r) == IF Fetches(r) = {} THEN local[r].b64 ELSE JsonNull

NormalizationDone(r) == Invoked(r) /\ pc[r] \in {"image:put", "image:insert", "done"}
UrlOnly(res) ==
    /\ res.kind = "object" /\ ~HasInlineData(res) /\ ~HasInlineImages(res)
    /\ \/ HasTopUrl(res) /\ res.url.value # ""
       \/ ~HasTopUrl(res) /\ HasDataUrl(res)
FetchFailed(r) ==
    Has(log[r], "fetch:throw") \/ (Has(log[r], "fetch") /\ local[r].fetchRes.status # 200)
\* C13: a result with inline bytes gives exactly those bytes and nothing is
\* fetched; a result with a URL only is fetched exactly once, and when the
\* fetch fails (it rejects, or its status is not a success) there are no
\* bytes, has_base64 is false and the request still ends with its 200.
\* (Fails: the status of the fetched response is never looked at, so the body
\* of a 404 is encoded and reported as the image.)
C13_FetchOnceFailureIsAbsence ==
    \A r \in Reqs :
        NormalizationDone(r) =>
            LET res == local[r].imageResult IN
            /\ (res.kind = "object" /\ (HasInlineData(res) \/ HasInlineImages(res))) =>
                    /\ Fetches(r) = {}
                    /\ local[r].b64 = (IF HasInlineData(res) THEN InlineOf(res.data)
                                       ELSE InlineOf(res.images))
            /\ UrlOnly(res) =>
                    /\ Cardinality(Fetches(r)) = 1
                    /\ FetchFailed(r) => ~Truthy(local[r].b64)
                    /\ (FetchFailed(r) /\ pc[r] = "done") =>
                            response[r] = jsonResponse(
                                <<"image", local[r].id, FALSE, res>>, 200)

NonEmptyBytes(b64) == b64.kind = "string" /\ b64.value # ""
PutAttempted(r) == Has(log[r], "KV.put") \/ Has(log[r], "KV.put:throw")
\* The two outcomes of normalization, as the rest of the request shows them.
OutcomeBytes(r) == NonEmptyBytes(local[r].b64) /\ (pc[r] = "done" => PutAttempted(r))
OutcomeAbsence(r) == ~NonEmptyBytes(local[r].b64) /\ ~PutAttempted(r)
\* A normalization is under way: requests are handled one at a time.
Normalizing == \E r \in Reqs : Invoked(r) /\ pc[r] # "done"
C14_Safe ==
    \A r \in Reqs :
        /\ Invoked(r) => response[r] # Rejected
        /\ NormalizationDone(r) =>
                /\ OutcomeBytes(r) \/ OutcomeAbsence(r)
                /\ ~(OutcomeBytes(r) /\ OutcomeAbsence(r))
                /\ pc[r] = "done" =>
                        /\ response[r].status = 200
                        /\ response[r].body[1] = "image"
                        /\ response[r].body[3] = OutcomeBytes(r)
Blank(v) == v.kind = "undefined" \/ (v.kind = "string" /\ Trim(v.value) = "")
\* C15: a text-to-image request whose prompt is missing, empty or only white
\* space is answered 400 with an error field, and in that request nothing is
\* called: no inference, no id, no put, no insert.
C15_BlankPromptIs400 ==
    \A r \in Reqs :
        (IsImage(r) /\ Blank(req[r].prompt)) =>
            /\ pc[r] = "done"
            /\ response[r].status = 400
            /\ response[r].type = "application/json"
            /\ response[r].body[1] = "error"
            /\ log[r] = <<>>
            /\ local[r] = NoLocals
            /\ \A s \in sent : s.id \in {UUID(n) : n \in 1..nuuid}
            /\ \A k \in KvKeys : lastPut[k] # rid[r]

\* A prompt of white space, refused after an image was generated and stored:
\* the one id and the one row are those of the earlier request.
C15_Witness ==
    \E r \in Reqs :
        /\ IsImage(r) /\ req[r].prompt = JsonStr("  ")
        /\ response[r] = errorResponse("Image prompt required", 400)
        /\ nreq = 2 /\ nuuid = 1 /\ Cardinality(images) = 1
        /\ Truthy(kv[ImageKey(UUID(1))])

\* A read of a stored image that was answered from the store.
ImageRead(r) == handler[r] = "handleGetImage" /\ pc[r] = "done" /\ Has(log[r], "KV.get")
\* The text-to-image responses that reported has_base64 true for id.
ReportedBytes(id) == {s \in sent : s.kind = "image" /\ s.id = id /\ s.has_base64}
\* C16: when a text-to-image response reported has_base64 true for an id, a
\* later GET /api/images/<id> gives { id, b64 } with those bytes; when it
\* reported false, or the id was never generated, the GET gives 404; also
\* when the put of the bytes failed. (Fails: has_base64 is !!b64 whether or
\* not the put succeeded, so after a failed put it says true and the GET
\* gives 404.)
C16_HasBase64TellsWhatIsStored ==
    \A r \in Reqs :
        ImageRead(r) =>
            IF ReportedBytes(local[r].id) # {}
            THEN \E s \in ReportedBytes(local[r].id) :
                    response[r] = jsonResponse(<<"bytes", local[r].id, s.value>>, 200)
            ELSE response[r] = errorResponse("Image not found", 404)

IsWrite(r) == handler[r] = "handleWriteProjectFile"
\* The body fails the validation the spec states: no path, an empty path, or
\* a content that is not a string.
InvalidWrite(q) ==
    \/ q.file_path.kind = "undefined"
    \/ q.file_path.kind = "string" /\ q.file_path.value = ""
    \/ q.content.kind # "string"
Trees == {TreeOf(kv[FileTreeKey])} \cup {local[r].tree : r \in Reqs}
NoDuplicateNodes ==
    \A root \in Trees : \A i, j \in 1..Len(root) :
        SamePath(root[i].path, root[j].path) => i = j
NoStoreFailure(l) ==
    \A i \in 1..Len(l) : l[i] \notin {"KV.put:throw", "KV.get:throw", "D1.insert:throw"}
\* The step in which a write returns, no store call of it having failed.
WriteReturns(r) ==
    /\ IsWrite(r) /\ pc[r] \in {"file:tree", "file:treeput"} /\ pc'[r] = "done"
    /\ NoStoreFailure(log'[r])
\* The step in which a read of the tree returns what the store gave.
TreeReadReturns(r) == pc[r] = "tree:get" /\ pc'[r] = "done" /\ Has(log'[r], "KV.get")
RoundTrip(r) ==
        /\ WriteReturns(r) =>
                /\ response'[r] = WrittenResponse(req[r].file_path)
                /\ HasNode(TreeOf(kv'[FileTreeKey]), req[r].file_path)
        /\ TreeReadReturns(r) =>
                response'[r] = jsonResponse(<<"tree", TreeOf(kv'[FileTreeKey])>>, 200)
C18_Step == \A r \in Reqs : RoundTrip(r)
\* C18: when a write of path p has returned its 200, no store call having
\* failed, the stored tree has a node for p, and GET /api/file-tree returns
\* the stored tree; and whatever the number and the interleaving of the
\* writes, no tree ever holds two nodes of one path.
C18_RoundTripNoDuplicates == []NoDuplicateNodes /\ [][C18_Step]_vars
\* The same of the writes whose path is a string.
C18_StringStep == \A r \in Reqs : req[r].file_path.kind = "string" => RoundTrip(r)
C18_StringPathsRoundTrip == []NoDuplicateNodes /\ [][C18_StringStep]_vars

\* Two writes of one path raced: each read the tree before the other put it,
\* both put it, and the tree has the one node.
C18_Witness ==
    \E r, o \in Reqs :
        /\ r # o /\ IsWrite(r) /\ IsWrite(o) /\ pc[r] = "done" /\ pc[o] = "done"
        /\ req[r].file_path = JsonStr("a/b.txt") /\ req[o].file_path = JsonStr("a/b.txt")
        /\ log[r] = <<"KV.put", "D1.insert", "KV.get", "KV.put">>
        /\ log[o] = <<"KV.put", "D1.insert", "KV.get", "KV.put">>
        /\ Len(TreeOf(kv[FileTreeKey])) = 1
        /\ HasNode(TreeOf(kv[FileTreeKey]), JsonStr("a/b.txt"))

IsEmbed(r) == handler[r] = "handleEmbeddings"
\* The 200 of r has the shape { id, namespace }, and r put the embedding
\* under embedding:<namespace>:<id> before it.
IdAndNamespace(r) ==
    \E id \in Ids, ns \in Namespaces :
        /\ response[r] = EmbeddedResponse(id, ns)
        /\ Has(log[r], "KV.put")
        /\ lastPut[EmbeddingKey(ns, id)] = rid[r]
        /\ kv[EmbeddingKey(ns, id)].kind = "string" /\ kv[EmbeddingKey(ns, id)].json = "embedding"
\* C19: POST /api/embeddings answers 400 when the text is missing or blank,
\* before any inference call or store write; and every response of status 200
\* has the shape { id, namespace } and comes after the write of the embedding
\* under embedding:<namespace>:<id> for that id.
C19_EmbeddingsContract ==
    \A r \in Reqs :
        IsEmbed(r) /\ pc[r] = "done" =>
            /\ Blank(req[r].text) =>
                    /\ response[r] = errorResponse("Text is required for embeddings", 400)
                    /\ log[r] = <<>>
            /\ response[r].status = 200 => IdAndNamespace(r)
\* The same without the answer of index.ts:320 to a result with no vector.
C19_WhenVectorFound ==
    \A r \in Reqs :
        IsEmbed(r) /\ pc[r] = "done" =>
            /\ Blank(req[r].text) =>
                    /\ response[r] = errorResponse("Text is required for embeddings", 400)
                    /\ log[r] = <<>>
            /\ response[r].status = 200 /\ Truthy(local[r].vector) => IdAndNamespace(r)
\* An embedding was stored under its namespace and its id was answered.
C19_Stored ==
    \E r \in Reqs :
        /\ IsEmbed(r) /\ pc[r] = "done" /\ req[r].namespace = JsonStr("ns")
        /\ response[r] = EmbeddedResponse(local[r].id, "ns")
        /\ kv[EmbeddingKey("ns", local[r].id)] = StoredEmbedding("cat", JsonArr(<<1>>))

\* C20: after a chat call has completed and put the session's window, the
\* stored window has an assistant message whose content is the whole reply
\* the inference service streamed for that call.
C20_AssembledReplyStored ==
    \A r \in Reqs :
        (/\ IsChat(r) /\ pc[r] = "done" /\ Has(log[r], "KV.put")
         /\ response[r] = AiResponse(rid[r])
         /\ lastPut[SessionKey(sessionId[r])] = rid[r])
        => Msg("assistant", ReplyText(rid[r])) \in Elements(Stored(SessionKey(sessionId[r])))
\* What holds instead: every assistant message of the stored window is one
\* the caller sent or one read from the memory, never the reply of the call.
C20_NoReplyStored ==
    \A r \in Reqs :
        (/\ IsChat(r) /\ pc[r] = "done" /\ Has(log[r], "KV.put")
         /\ lastPut[SessionKey(sessionId[r])] = rid[r])
        => /\ Elements(Stored(SessionKey(sessionId[r]))) \subseteq Elements(messages[r])
           /\ \A id \in 1..nreq :
                Msg("assistant", ReplyText(id)) \notin Elements(Stored(SessionKey(sessionId[r])))

\* The place in l of the call named e, settled either way (0: not made).
Attempt(l, e) == Index(l, e) + Index(l, e \o ":throw")
\* C21: in a chat call that got its reply the steps come in this order: the
\* session memory is read, the inference service is called, the session
\* memory is put, the insert of the log record is attempted, and the response
\* is returned; so the put of the memory comes before the insert.
C21_StepsInOrder ==
    \A r \in Reqs :
        (IsChat(r) /\ pc[r] = "done" /\ Has(log[r], "AI.run")) =>
            /\ 0 < Attempt(log[r], "KV.get")
            /\ Attempt(log[r], "KV.get") < Index(log[r], "AI.run")
            /\ Index(log[r], "AI.run") < Attempt(log[r], "KV.put")
            /\ Attempt(log[r], "KV.put") < Attempt(log[r], "D1.insert")
            /\ response[r] = AiResponse(rid[r])
\* The order of index.ts:146-187: the insert comes before the put.
C21_InsertBeforePut ==
    \A r \in Reqs :
        (IsChat(r) /\ pc[r] = "done" /\ Has(log[r], "AI.run")) =>
            /\ 0 < Attempt(log[r], "KV.get")
            /\ Attempt(log[r], "KV.get") < Index(log[r], "AI.run")
            /\ Index(log[r], "AI.run") < Attempt(log[r], "D1.insert")
            /\ Attempt(log[r], "D1.insert") < Attempt(log[r], "KV.put")
            /\ response[r] = AiResponse(rid[r])

\* The inference service has returned the reply of r and the handler is at
\* the insert of the record.
AtInsert(r) == IsChat(r) /\ pc[r] = "chat:insert"
Responded(r) == pc[r] = "done" /\ response[r] = AiResponse(rid[r])
\* C22: once the inference service has returned its response to a chat call,
\* that response is returned to the caller in the end, also when the insert
\* of the chat's record never completes: the handler does not wait for it.
C22_LoggingDoesNotGate == \A r \in Reqs : AtInsert(r) ~> Responded(r)
\* No chat call has responded while its insert had not settled.
C22_RespondsAfterInsertSettled ==
    \A r \in Reqs : (IsChat(r) /\ Responded(r)) => 0 < Attempt(log[r], "D1.insert")

\* The place in l of the inference call that returned a result (0: none).
Inferred(l) == Index(l, "AI.run") + Index(l, "AI.embed")
\* C23: on every route that calls the inference service (chat, text-to-image,
\* embeddings), when the call has returned a result, of whatever shape, the
\* insert of a record is attempted after it before the handler is done.
C23_InsertAfterEveryInference ==
    \A r \in Reqs :
        (/\ IsChat(r) \/ IsImage(r) \/ IsEmbed(r)
         /\ pc[r] = "done" /\ 0 < Inferred(log[r]))
        => Inferred(log[r]) < Attempt(log[r], "D1.insert")
\* What holds of the embeddings: the insert is attempted when a vector was
\* found and the put of it succeeded.
C23_InsertWhenStored ==
    \A r \in Reqs :
        (IsEmbed(r) /\ pc[r] = "done" /\ 0 < Inferred(log[r]))
        => (0 < Attempt(log[r], "D1.insert")
                <=> (Truthy(local[r].vector) /\ Has(log[r], "KV.put")))

C25_PutAndInsertAttempted ==
    \A r \in Reqs :
        (IsWrite(r) /\ pc[r] = "done" /\ ~InvalidWrite(req[r])) =>
            /\ 0 < Attempt(log[r], "KV.put")
            /\ 0 < Attempt(log[r], "D1.insert")
\* What holds instead: the put is attempted, and the insert is attempted
\* exactly when the put succeeded.
C25_InsertOnlyAfterPut ==
    \A r \in Reqs :
        (IsWrite(r) /\ pc[r] = "done" /\ ~InvalidWrite(req[r])) =>
            /\ 0 < Attempt(log[r], "KV.put")
            /\ 0 < Attempt(log[r], "D1.insert") <=> log[r][1] = "KV.put"

\* The put of the content and the insert of the edit log of r succeeded.
Stored2(r) == Len(log[r]) >= 2 /\ log[r][1] = "KV.put" /\ log[r][2] = "D1.insert"
\* C26: in the file write flow, when the put of the content and the insert of
\* the edit log succeeded, the response is the 200 { success: true, path }
\* whatever fails in the update of the tree (its read, the making of the
\* node, its put), and the content and the edit-log row are in place.
C26_TreeFailureKeepsWrite ==
    \A r \in Reqs :
        (IsWrite(r) /\ pc[r] = "done" /\ Stored2(r)) =>
            /\ response[r] = WrittenResponse(req[r].file_path)
            /\ kv[FileKey(req[r].file_path)] = req[r].content
            /\ [id |-> local[r].id, file_path |-> Text(req[r].file_path)] \in file_edits
\* The put of the tree failed; the write was answered 200, the content and
\* the row are stored, and the tree has no node for the path.
C26_Witness ==
    \E r \in Reqs :
        /\ IsWrite(r) /\ pc[r] = "done"
        /\ log[r] = <<"KV.put", "D1.insert", "KV.get", "KV.put:throw", "console.warn">>
        /\ response[r] = WrittenResponse(req[r].file_path)
        /\ kv[FileKey(req[r].file_path)] = JsonStr("hello")
        /\ ~HasNode(TreeOf(kv[FileTreeKey]), req[r].file_path)

\* The read of the session memory of r failed, or there was nothing to read.
ReadGaveNothing(r) ==
    \/ Has(log[r], "KV.get:throw")
    \/ /\ Has(log[r], "KV.get") /\ ~Has(log[r], "KV.put")
       /\ kv[SessionKey(sessionId[r])] = NoValue
\* C27: in a chat call a failure of the read or of the put of the session
\* memory is caught where it happens and never changes the response: when the
\* read fails or nothing is stored, the call goes on with no memory (the
\* system prompt and the caller's messages alone) and still calls the
\* inference service; when the put fails, the reply is still returned, with
\* the status it had.
C27_MemoryFailuresAreLocal ==
    \A r \in Reqs :
        (IsChat(r) /\ Validated(r)) =>
            /\ ReadGaveNothing(r) =>
                    /\ messages[r] = EnsureSystemPrompt(Caller(r))
                    /\ HandedToAI(r)
            /\ (pc[r] = "done" /\ Has(log[r], "AI.run")) =>
                    /\ response[r] = AiResponse(rid[r])
                    /\ response[r].status = 200
\* A window was stored for the session; in a later call of it the read
\* failed and the put failed: the messages are the caller's alone, the reply
\* was returned, and the window is the earlier one.
C27_Witness ==
    \E r \in Reqs :
        /\ IsChat(r) /\ pc[r] = "done"
        /\ log[r] = <<"KV.get:throw", "console.warn", "AI.run", "D1.insert",
                      "KV.put:throw", "console.warn">>
        /\ Len(Stored(SessionKey(sessionId[r]))) > 0
        /\ lastPut[SessionKey(sessionId[r])] # rid[r]
        /\ messages[r] = EnsureSystemPrompt(Caller(r))
        /\ response[r] = AiResponse(rid[r])

\* The write of r, of a string path, is over: it answered 200 and no store
\* call of it failed.
CleanWrite(r) ==
    /\ IsWrite(r) /\ pc[r] = "done" /\ req[r].file_path.kind = "string"
    /\ NoStoreFailure(log[r]) /\ response[r] = WrittenResponse(req[r].file_path)
AllWritesClean == \A r \in Reqs : rid[r] # 0 => CleanWrite(r)
DistinctPaths ==
    \A r, o \in Reqs : (r # o /\ IsWrite(r) /\ IsWrite(o)) => req[r].file_path # req[o].file_path
\* C28: when writes of distinct paths, their steps interleaved in any order,
\* have all returned their 200 with no store failure, the stored tree has a
\* node for every one of the paths: no write's node is lost to another.
C28_NoTreeNodeLost ==
    (AllWritesClean /\ DistinctPaths) =>
        \A r \in Reqs : IsWrite(r) => HasNode(TreeOf(kv[FileTreeKey]), req[r].file_path)

\* The key of the session whose id the request of r carries.
OwnKey(r) == SessionKey(SessionOf(req[r]))
\* r has just put a value under k.
PutBy(r, k) == lastPut'[k] # lastPut[k] /\ lastPut'[k] = rid[r]
\* The read of the memory of r has just settled.
MemoryRead(r) == pc[r] \in {"chat:get", "old:get"} /\ pc'[r] # pc[r]
C29_Step ==
    \A r \in Reqs :
        /\ \A k \in KvKeys : PutBy(r, k) => k = OwnKey(r)
        /\ MemoryRead(r) =>
                \/ messages'[r] = messages[r] \o Stored(OwnKey(r))
                \/ messages'[r] = messages[r]
        /\ \A k \in KvKeys \ {OwnKey(r)} :
                (\A o \in Reqs : pc'[o] = pc[o] \/ o = r) /\ pc'[r] # pc[r] => kv'[k] = kv[k]
\* C29: a chat call that carries session_id A reads and writes the key
\* session:A alone: what it appends to its messages is what is stored under
\* that key, its put goes to that key, and the value under every other key is
\* left as it was; so what is sent to the inference service for a session
\* holds nothing that the calls of another session stored.
C29_SessionIsolation == [][C29_Step]_vars
\* A call of session B whose caller sent "yo" has, in the messages it sends
\* to the inference service, the "hi" that a call of session A stored.
C29_Leak ==
    \E r \in Reqs :
        /\ IsChatHandler(r) /\ req[r].session_id = JsonStr("B")
        /\ Has(log[r], "AI.run")
        /\ User("hi") \in Elements(messages[r])
        /\ User("hi") \notin Elements(DestructureMessages(req[r]).value)

\* The write of r was answered with an error status.
WriteFailed(r) == IsWrite(r) /\ pc[r] = "done" /\ response[r].status \in {400, 500}
\* C30: when POST /api/project-file answers 400 or 500, the request has left
\* the stores as they were: it put nothing under file:<path>, inserted no row
\* into file_edits, and put no tree.
C30_ErrorLeavesStoresUnchanged ==
    \A r \in Reqs :
        WriteFailed(r) =>
            /\ \A t \in FilePathTexts : lastPut[<<"file", t>>] # rid[r]
            /\ lastPut[FileTreeKey] # rid[r]
            /\ \A row \in file_edits : row.id # local[r].id
\* What holds instead: such a request wrote no row and no tree, and wrote the
\* content exactly when its put succeeded and its insert failed.
C30_OnlyContentWritten ==
    \A r \in Reqs :
        WriteFailed(r) =>
            /\ lastPut[FileTreeKey] # rid[r]
            /\ \A row \in file_edits : row.id # local[r].id
            /\ (\E t \in FilePathTexts : lastPut[<<"file", t>>] = rid[r])
                    <=> log[r] = <<"KV.put", "D1.insert:throw", "console.error">>

=============================================================================
